---- MODULE Spec2Model ----
(***************************************************************************)
(* Cipher-suite registry, server-side suite negotiation, client offer      *)
(* builder and priority index mapper of lib/algorithms/ciphersuites.c.     *)
(*                                                                         *)
(* A suite is referred to by its 1-based position in cs_algorithms: the C  *)
(* code compares gnutls_cipher_suite_entry_st pointers into that table, so *)
(* pointer identity is index identity.  The build modelled has ENABLE_DHE, *)
(* ENABLE_ECDHE, ENABLE_PSK, ENABLE_ANON, ENABLE_SRP and ENABLE_GOST       *)
(* defined; ENABLE_SSL3 is a build choice carried in enable_ssl3.          *)
(***************************************************************************)
EXTENDS Integers, Sequences, FiniteSets, TLC

(* ------------------------------------------------------------------ *)
(* Protocol versions (gnutls_protocol_t) and error codes.              *)
(* ------------------------------------------------------------------ *)
GNUTLS_SSL3 == 1
GNUTLS_TLS1 == 2
GNUTLS_TLS1_1 == 3
GNUTLS_TLS1_2 == 4
GNUTLS_TLS1_3 == 5
GNUTLS_TLS_VERSION_MAX == GNUTLS_TLS1_3
GNUTLS_DTLS0_9 == 200
GNUTLS_DTLS1_0 == 201
GNUTLS_DTLS1_2 == 202
GNUTLS_DTLS_VERSION_MIN == GNUTLS_DTLS0_9
GNUTLS_DTLS_VERSION_MAX == GNUTLS_DTLS1_2
GNUTLS_VERSION_UNKNOWN == 255

GNUTLS_E_SUCCESS == 0
GNUTLS_E_UNKNOWN_CIPHER_SUITE == -21
GNUTLS_E_MEMORY_ERROR == -25
GNUTLS_E_REQUESTED_DATA_NOT_AVAILABLE == -56
GNUTLS_E_NO_CIPHER_SUITES == -87
GNUTLS_E_NO_PRIORITIES_WERE_SET == -326

GNUTLS_FALLBACK_SCSV_MAJOR == 86
GNUTLS_FALLBACK_SCSV_MINOR == 0

NULL == "NULL"

(* ------------------------------------------------------------------ *)
(* The registry.                                                       *)
(* ------------------------------------------------------------------ *)
\* Variant: every legacy row carries the fallback SCSV value as its id.
ENTRY_scsv_id(name, id, block_algorithm, kx_algorithm, mac_algorithm, min_version, dtls_version) ==
    [name |-> name, id |-> <<GNUTLS_FALLBACK_SCSV_MAJOR, GNUTLS_FALLBACK_SCSV_MINOR>>,
     block_algorithm |-> block_algorithm,
     kx_algorithm |-> kx_algorithm, mac_algorithm |-> mac_algorithm,
     min_version |-> min_version, max_version |-> GNUTLS_TLS1_2,
     min_dtls_version |-> dtls_version, max_dtls_version |-> GNUTLS_DTLS1_2,
     prf |-> "GNUTLS_MAC_SHA256"]

\* ENTRY: legacy suite, valid up to TLS 1.2 / DTLS 1.2, PRF SHA-256.
ENTRY(name, id, block_algorithm, kx_algorithm, mac_algorithm, min_version, dtls_version) ==
    [name |-> name, id |-> id, block_algorithm |-> block_algorithm,
     kx_algorithm |-> kx_algorithm, mac_algorithm |-> mac_algorithm,
     min_version |-> min_version, max_version |-> GNUTLS_TLS1_2,
     min_dtls_version |-> dtls_version, max_dtls_version |-> GNUTLS_DTLS1_2,
     prf |-> "GNUTLS_MAC_SHA256"]

\* ENTRY_PRF: as ENTRY with an explicit PRF.
ENTRY_PRF(name, id, block_algorithm, kx_algorithm, mac_algorithm, min_version, dtls_version, prf) ==
    [name |-> name, id |-> id, block_algorithm |-> block_algorithm,
     kx_algorithm |-> kx_algorithm, mac_algorithm |-> mac_algorithm,
     min_version |-> min_version, max_version |-> GNUTLS_TLS1_2,
     min_dtls_version |-> dtls_version, max_dtls_version |-> GNUTLS_DTLS1_2,
     prf |-> prf]

\* Variant: a TLS 1.3 row given the legacy upper version.
ENTRY_TLS13_legacy_max(name, id, block_algorithm, min_version, prf) ==
    [name |-> name, id |-> id, block_algorithm |-> block_algorithm,
     kx_algorithm |-> "GNUTLS_KX_UNKNOWN", mac_algorithm |-> "GNUTLS_MAC_AEAD",
     min_version |-> min_version, max_version |-> GNUTLS_TLS1_2,
     min_dtls_version |-> GNUTLS_VERSION_UNKNOWN,
     max_dtls_version |-> GNUTLS_VERSION_UNKNOWN,
     prf |-> prf]

\* ENTRY_TLS13: kx 0 (GNUTLS_KX_UNKNOWN), AEAD, TLS 1.3 only, no DTLS range.
ENTRY_TLS13(name, id, block_algorithm, min_version, prf) ==
    [name |-> name, id |-> id, block_algorithm |-> block_algorithm,
     kx_algorithm |-> "GNUTLS_KX_UNKNOWN", mac_algorithm |-> "GNUTLS_MAC_AEAD",
     min_version |-> min_version, max_version |-> GNUTLS_TLS1_3,
     min_dtls_version |-> GNUTLS_VERSION_UNKNOWN,
     max_dtls_version |-> GNUTLS_VERSION_UNKNOWN,
     prf |-> prf]

\* The table, in declaration order (the canonical_name column is omitted;
\* the all-zero terminator row is represented by the end of the sequence).
cs_algorithms == <<
    ENTRY_TLS13("GNUTLS_AES_128_GCM_SHA256", <<19, 1>>, "GNUTLS_CIPHER_AES_128_GCM", GNUTLS_TLS1_3, "GNUTLS_MAC_SHA256"),
    ENTRY_TLS13("GNUTLS_AES_256_GCM_SHA384", <<19, 2>>, "GNUTLS_CIPHER_AES_256_GCM", GNUTLS_TLS1_3, "GNUTLS_MAC_SHA384"),
    ENTRY_TLS13("GNUTLS_CHACHA20_POLY1305_SHA256", <<19, 3>>, "GNUTLS_CIPHER_CHACHA20_POLY1305", GNUTLS_TLS1_3, "GNUTLS_MAC_SHA256"),
    ENTRY_TLS13("GNUTLS_AES_128_CCM_SHA256", <<19, 4>>, "GNUTLS_CIPHER_AES_128_CCM", GNUTLS_TLS1_3, "GNUTLS_MAC_SHA256"),
    ENTRY_TLS13("GNUTLS_AES_128_CCM_8_SHA256", <<19, 5>>, "GNUTLS_CIPHER_AES_128_CCM_8", GNUTLS_TLS1_3, "GNUTLS_MAC_SHA256"),
    ENTRY("GNUTLS_RSA_NULL_MD5", <<0, 1>>, "GNUTLS_CIPHER_NULL", "GNUTLS_KX_RSA", "GNUTLS_MAC_MD5", GNUTLS_SSL3, GNUTLS_DTLS_VERSION_MIN),
    ENTRY("GNUTLS_RSA_NULL_SHA1", <<0, 2>>, "GNUTLS_CIPHER_NULL", "GNUTLS_KX_RSA", "GNUTLS_MAC_SHA1", GNUTLS_SSL3, GNUTLS_DTLS_VERSION_MIN),
    ENTRY("GNUTLS_RSA_NULL_SHA256", <<0, 59>>, "GNUTLS_CIPHER_NULL", "GNUTLS_KX_RSA", "GNUTLS_MAC_SHA256", GNUTLS_TLS1_2, GNUTLS_DTLS1_2),
    ENTRY("GNUTLS_RSA_ARCFOUR_128_SHA1", <<0, 5>>, "GNUTLS_CIPHER_ARCFOUR_128", "GNUTLS_KX_RSA", "GNUTLS_MAC_SHA1", GNUTLS_SSL3, GNUTLS_VERSION_UNKNOWN),
    ENTRY("GNUTLS_RSA_ARCFOUR_128_MD5", <<0, 4>>, "GNUTLS_CIPHER_ARCFOUR_128", "GNUTLS_KX_RSA", "GNUTLS_MAC_MD5", GNUTLS_SSL3, GNUTLS_VERSION_UNKNOWN),
    ENTRY("GNUTLS_RSA_3DES_EDE_CBC_SHA1", <<0, 10>>, "GNUTLS_CIPHER_3DES_CBC", "GNUTLS_KX_RSA", "GNUTLS_MAC_SHA1", GNUTLS_SSL3, GNUTLS_DTLS_VERSION_MIN),
    ENTRY("GNUTLS_RSA_AES_128_CBC_SHA1", <<0, 47>>, "GNUTLS_CIPHER_AES_128_CBC", "GNUTLS_KX_RSA", "GNUTLS_MAC_SHA1", GNUTLS_SSL3, GNUTLS_DTLS_VERSION_MIN),
    ENTRY("GNUTLS_RSA_AES_256_CBC_SHA1", <<0, 53>>, "GNUTLS_CIPHER_AES_256_CBC", "GNUTLS_KX_RSA", "GNUTLS_MAC_SHA1", GNUTLS_SSL3, GNUTLS_DTLS_VERSION_MIN),
    ENTRY("GNUTLS_RSA_CAMELLIA_128_CBC_SHA256", <<0, 186>>, "GNUTLS_CIPHER_CAMELLIA_128_CBC", "GNUTLS_KX_RSA", "GNUTLS_MAC_SHA256", GNUTLS_TLS1_2, GNUTLS_DTLS1_2),
    ENTRY("GNUTLS_RSA_CAMELLIA_256_CBC_SHA256", <<0, 192>>, "GNUTLS_CIPHER_CAMELLIA_256_CBC", "GNUTLS_KX_RSA", "GNUTLS_MAC_SHA256", GNUTLS_TLS1_2, GNUTLS_DTLS1_2),
    ENTRY("GNUTLS_RSA_CAMELLIA_128_CBC_SHA1", <<0, 65>>, "GNUTLS_CIPHER_CAMELLIA_128_CBC", "GNUTLS_KX_RSA", "GNUTLS_MAC_SHA1", GNUTLS_SSL3, GNUTLS_DTLS_VERSION_MIN),
    ENTRY("GNUTLS_RSA_CAMELLIA_256_CBC_SHA1", <<0, 132>>, "GNUTLS_CIPHER_CAMELLIA_256_CBC", "GNUTLS_KX_RSA", "GNUTLS_MAC_SHA1", GNUTLS_SSL3, GNUTLS_DTLS_VERSION_MIN),
    ENTRY("GNUTLS_RSA_AES_128_CBC_SHA256", <<0, 60>>, "GNUTLS_CIPHER_AES_128_CBC", "GNUTLS_KX_RSA", "GNUTLS_MAC_SHA256", GNUTLS_TLS1_2, GNUTLS_DTLS1_2),
    ENTRY("GNUTLS_RSA_AES_256_CBC_SHA256", <<0, 61>>, "GNUTLS_CIPHER_AES_256_CBC", "GNUTLS_KX_RSA", "GNUTLS_MAC_SHA256", GNUTLS_TLS1_2, GNUTLS_DTLS1_2),
    ENTRY("GNUTLS_RSA_AES_128_GCM_SHA256", <<0, 156>>, "GNUTLS_CIPHER_AES_128_GCM", "GNUTLS_KX_RSA", "GNUTLS_MAC_AEAD", GNUTLS_TLS1_2, GNUTLS_DTLS1_2),
    ENTRY_PRF("GNUTLS_RSA_AES_256_GCM_SHA384", <<0, 157>>, "GNUTLS_CIPHER_AES_256_GCM", "GNUTLS_KX_RSA", "GNUTLS_MAC_AEAD", GNUTLS_TLS1_2, GNUTLS_DTLS1_2, "GNUTLS_MAC_SHA384"),
    ENTRY("GNUTLS_RSA_CAMELLIA_128_GCM_SHA256", <<192, 122>>, "GNUTLS_CIPHER_CAMELLIA_128_GCM", "GNUTLS_KX_RSA", "GNUTLS_MAC_AEAD", GNUTLS_TLS1_2, GNUTLS_DTLS1_2),
    ENTRY_PRF("GNUTLS_RSA_CAMELLIA_256_GCM_SHA384", <<192, 123>>, "GNUTLS_CIPHER_CAMELLIA_256_GCM", "GNUTLS_KX_RSA", "GNUTLS_MAC_AEAD", GNUTLS_TLS1_2, GNUTLS_DTLS1_2, "GNUTLS_MAC_SHA384"),
    ENTRY("GNUTLS_RSA_AES_128_CCM", <<192, 156>>, "GNUTLS_CIPHER_AES_128_CCM", "GNUTLS_KX_RSA", "GNUTLS_MAC_AEAD", GNUTLS_TLS1_2, GNUTLS_DTLS1_2),
    ENTRY("GNUTLS_RSA_AES_256_CCM", <<192, 157>>, "GNUTLS_CIPHER_AES_256_CCM", "GNUTLS_KX_RSA", "GNUTLS_MAC_AEAD", GNUTLS_TLS1_2, GNUTLS_DTLS1_2),
    ENTRY("GNUTLS_RSA_AES_128_CCM_8", <<192, 160>>, "GNUTLS_CIPHER_AES_128_CCM_8", "GNUTLS_KX_RSA", "GNUTLS_MAC_AEAD", GNUTLS_TLS1_2, GNUTLS_DTLS1_2),
    ENTRY("GNUTLS_RSA_AES_256_CCM_8", <<192, 161>>, "GNUTLS_CIPHER_AES_256_CCM_8", "GNUTLS_KX_RSA", "GNUTLS_MAC_AEAD", GNUTLS_TLS1_2, GNUTLS_DTLS1_2),
    ENTRY("GNUTLS_DHE_DSS_ARCFOUR_128_SHA1", <<0, 102>>, "GNUTLS_CIPHER_ARCFOUR_128", "GNUTLS_KX_DHE_DSS", "GNUTLS_MAC_SHA1", GNUTLS_SSL3, GNUTLS_VERSION_UNKNOWN),
    ENTRY("GNUTLS_DHE_DSS_3DES_EDE_CBC_SHA1", <<0, 19>>, "GNUTLS_CIPHER_3DES_CBC", "GNUTLS_KX_DHE_DSS", "GNUTLS_MAC_SHA1", GNUTLS_SSL3, GNUTLS_DTLS_VERSION_MIN),
    ENTRY("GNUTLS_DHE_DSS_AES_128_CBC_SHA1", <<0, 50>>, "GNUTLS_CIPHER_AES_128_CBC", "GNUTLS_KX_DHE_DSS", "GNUTLS_MAC_SHA1", GNUTLS_SSL3, GNUTLS_DTLS_VERSION_MIN),
    ENTRY("GNUTLS_DHE_DSS_AES_256_CBC_SHA1", <<0, 56>>, "GNUTLS_CIPHER_AES_256_CBC", "GNUTLS_KX_DHE_DSS", "GNUTLS_MAC_SHA1", GNUTLS_SSL3, GNUTLS_DTLS_VERSION_MIN),
    ENTRY("GNUTLS_DHE_DSS_CAMELLIA_128_CBC_SHA256", <<0, 189>>, "GNUTLS_CIPHER_CAMELLIA_128_CBC", "GNUTLS_KX_DHE_DSS", "GNUTLS_MAC_SHA256", GNUTLS_TLS1_2, GNUTLS_DTLS1_2),
    ENTRY("GNUTLS_DHE_DSS_CAMELLIA_256_CBC_SHA256", <<0, 195>>, "GNUTLS_CIPHER_CAMELLIA_256_CBC", "GNUTLS_KX_DHE_DSS", "GNUTLS_MAC_SHA256", GNUTLS_TLS1_2, GNUTLS_DTLS1_2),
    ENTRY("GNUTLS_DHE_DSS_CAMELLIA_128_CBC_SHA1", <<0, 68>>, "GNUTLS_CIPHER_CAMELLIA_128_CBC", "GNUTLS_KX_DHE_DSS", "GNUTLS_MAC_SHA1", GNUTLS_SSL3, GNUTLS_DTLS_VERSION_MIN),
    ENTRY("GNUTLS_DHE_DSS_CAMELLIA_256_CBC_SHA1", <<0, 135>>, "GNUTLS_CIPHER_CAMELLIA_256_CBC", "GNUTLS_KX_DHE_DSS", "GNUTLS_MAC_SHA1", GNUTLS_SSL3, GNUTLS_DTLS_VERSION_MIN),
    ENTRY("GNUTLS_DHE_DSS_AES_128_CBC_SHA256", <<0, 64>>, "GNUTLS_CIPHER_AES_128_CBC", "GNUTLS_KX_DHE_DSS", "GNUTLS_MAC_SHA256", GNUTLS_TLS1_2, GNUTLS_DTLS1_2),
    ENTRY("GNUTLS_DHE_DSS_AES_256_CBC_SHA256", <<0, 106>>, "GNUTLS_CIPHER_AES_256_CBC", "GNUTLS_KX_DHE_DSS", "GNUTLS_MAC_SHA256", GNUTLS_TLS1_2, GNUTLS_DTLS1_2),
    ENTRY("GNUTLS_DHE_DSS_AES_128_GCM_SHA256", <<0, 162>>, "GNUTLS_CIPHER_AES_128_GCM", "GNUTLS_KX_DHE_DSS", "GNUTLS_MAC_AEAD", GNUTLS_TLS1_2, GNUTLS_DTLS1_2),
    ENTRY_PRF("GNUTLS_DHE_DSS_AES_256_GCM_SHA384", <<0, 163>>, "GNUTLS_CIPHER_AES_256_GCM", "GNUTLS_KX_DHE_DSS", "GNUTLS_MAC_AEAD", GNUTLS_TLS1_2, GNUTLS_DTLS1_2, "GNUTLS_MAC_SHA384"),
    ENTRY("GNUTLS_DHE_DSS_CAMELLIA_128_GCM_SHA256", <<192, 128>>, "GNUTLS_CIPHER_CAMELLIA_128_GCM", "GNUTLS_KX_DHE_DSS", "GNUTLS_MAC_AEAD", GNUTLS_TLS1_2, GNUTLS_DTLS1_2),
    ENTRY_PRF("GNUTLS_DHE_DSS_CAMELLIA_256_GCM_SHA384", <<192, 129>>, "GNUTLS_CIPHER_CAMELLIA_256_GCM", "GNUTLS_KX_DHE_DSS", "GNUTLS_MAC_AEAD", GNUTLS_TLS1_2, GNUTLS_DTLS1_2, "GNUTLS_MAC_SHA384"),
    ENTRY("GNUTLS_DHE_RSA_3DES_EDE_CBC_SHA1", <<0, 22>>, "GNUTLS_CIPHER_3DES_CBC", "GNUTLS_KX_DHE_RSA", "GNUTLS_MAC_SHA1", GNUTLS_SSL3, GNUTLS_DTLS_VERSION_MIN),
    ENTRY("GNUTLS_DHE_RSA_AES_128_CBC_SHA1", <<0, 51>>, "GNUTLS_CIPHER_AES_128_CBC", "GNUTLS_KX_DHE_RSA", "GNUTLS_MAC_SHA1", GNUTLS_SSL3, GNUTLS_DTLS_VERSION_MIN),
    ENTRY("GNUTLS_DHE_RSA_AES_256_CBC_SHA1", <<0, 57>>, "GNUTLS_CIPHER_AES_256_CBC", "GNUTLS_KX_DHE_RSA", "GNUTLS_MAC_SHA1", GNUTLS_SSL3, GNUTLS_DTLS_VERSION_MIN),
    ENTRY("GNUTLS_DHE_RSA_CAMELLIA_128_CBC_SHA256", <<0, 190>>, "GNUTLS_CIPHER_CAMELLIA_128_CBC", "GNUTLS_KX_DHE_RSA", "GNUTLS_MAC_SHA256", GNUTLS_TLS1_2, GNUTLS_DTLS1_2),
    ENTRY("GNUTLS_DHE_RSA_CAMELLIA_256_CBC_SHA256", <<0, 196>>, "GNUTLS_CIPHER_CAMELLIA_256_CBC", "GNUTLS_KX_DHE_RSA", "GNUTLS_MAC_SHA256", GNUTLS_TLS1_2, GNUTLS_DTLS1_2),
    ENTRY("GNUTLS_DHE_RSA_CAMELLIA_128_CBC_SHA1", <<0, 69>>, "GNUTLS_CIPHER_CAMELLIA_128_CBC", "GNUTLS_KX_DHE_RSA", "GNUTLS_MAC_SHA1", GNUTLS_SSL3, GNUTLS_DTLS_VERSION_MIN),
    ENTRY("GNUTLS_DHE_RSA_CAMELLIA_256_CBC_SHA1", <<0, 136>>, "GNUTLS_CIPHER_CAMELLIA_256_CBC", "GNUTLS_KX_DHE_RSA", "GNUTLS_MAC_SHA1", GNUTLS_SSL3, GNUTLS_DTLS_VERSION_MIN),
    ENTRY("GNUTLS_DHE_RSA_AES_128_CBC_SHA256", <<0, 103>>, "GNUTLS_CIPHER_AES_128_CBC", "GNUTLS_KX_DHE_RSA", "GNUTLS_MAC_SHA256", GNUTLS_TLS1_2, GNUTLS_DTLS1_2),
    ENTRY("GNUTLS_DHE_RSA_AES_256_CBC_SHA256", <<0, 107>>, "GNUTLS_CIPHER_AES_256_CBC", "GNUTLS_KX_DHE_RSA", "GNUTLS_MAC_SHA256", GNUTLS_TLS1_2, GNUTLS_DTLS1_2),
    ENTRY("GNUTLS_DHE_RSA_AES_128_GCM_SHA256", <<0, 158>>, "GNUTLS_CIPHER_AES_128_GCM", "GNUTLS_KX_DHE_RSA", "GNUTLS_MAC_AEAD", GNUTLS_TLS1_2, GNUTLS_DTLS1_2),
    ENTRY_PRF("GNUTLS_DHE_RSA_AES_256_GCM_SHA384", <<0, 159>>, "GNUTLS_CIPHER_AES_256_GCM", "GNUTLS_KX_DHE_RSA", "GNUTLS_MAC_AEAD", GNUTLS_TLS1_2, GNUTLS_DTLS1_2, "GNUTLS_MAC_SHA384"),
    ENTRY("GNUTLS_DHE_RSA_CAMELLIA_128_GCM_SHA256", <<192, 124>>, "GNUTLS_CIPHER_CAMELLIA_128_GCM", "GNUTLS_KX_DHE_RSA", "GNUTLS_MAC_AEAD", GNUTLS_TLS1_2, GNUTLS_DTLS1_2),
    ENTRY_PRF("GNUTLS_DHE_RSA_CAMELLIA_256_GCM_SHA384", <<192, 125>>, "GNUTLS_CIPHER_CAMELLIA_256_GCM", "GNUTLS_KX_DHE_RSA", "GNUTLS_MAC_AEAD", GNUTLS_TLS1_2, GNUTLS_DTLS1_2, "GNUTLS_MAC_SHA384"),
    ENTRY("GNUTLS_DHE_RSA_CHACHA20_POLY1305", <<204, 170>>, "GNUTLS_CIPHER_CHACHA20_POLY1305", "GNUTLS_KX_DHE_RSA", "GNUTLS_MAC_AEAD", GNUTLS_TLS1_2, GNUTLS_DTLS1_2),
    ENTRY("GNUTLS_DHE_RSA_AES_128_CCM", <<192, 158>>, "GNUTLS_CIPHER_AES_128_CCM", "GNUTLS_KX_DHE_RSA", "GNUTLS_MAC_AEAD", GNUTLS_TLS1_2, GNUTLS_DTLS1_2),
    ENTRY("GNUTLS_DHE_RSA_AES_256_CCM", <<192, 159>>, "GNUTLS_CIPHER_AES_256_CCM", "GNUTLS_KX_DHE_RSA", "GNUTLS_MAC_AEAD", GNUTLS_TLS1_2, GNUTLS_DTLS1_2),
    ENTRY("GNUTLS_DHE_RSA_AES_128_CCM_8", <<192, 162>>, "GNUTLS_CIPHER_AES_128_CCM_8", "GNUTLS_KX_DHE_RSA", "GNUTLS_MAC_AEAD", GNUTLS_TLS1_2, GNUTLS_DTLS1_2),
    ENTRY("GNUTLS_DHE_RSA_AES_256_CCM_8", <<192, 163>>, "GNUTLS_CIPHER_AES_256_CCM_8", "GNUTLS_KX_DHE_RSA", "GNUTLS_MAC_AEAD", GNUTLS_TLS1_2, GNUTLS_DTLS1_2),
    ENTRY("GNUTLS_ECDHE_RSA_NULL_SHA1", <<192, 16>>, "GNUTLS_CIPHER_NULL", "GNUTLS_KX_ECDHE_RSA", "GNUTLS_MAC_SHA1", GNUTLS_SSL3, GNUTLS_DTLS_VERSION_MIN),
    ENTRY("GNUTLS_ECDHE_RSA_3DES_EDE_CBC_SHA1", <<192, 18>>, "GNUTLS_CIPHER_3DES_CBC", "GNUTLS_KX_ECDHE_RSA", "GNUTLS_MAC_SHA1", GNUTLS_SSL3, GNUTLS_DTLS_VERSION_MIN),
    ENTRY("GNUTLS_ECDHE_RSA_AES_128_CBC_SHA1", <<192, 19>>, "GNUTLS_CIPHER_AES_128_CBC", "GNUTLS_KX_ECDHE_RSA", "GNUTLS_MAC_SHA1", GNUTLS_SSL3, GNUTLS_DTLS_VERSION_MIN),
    ENTRY("GNUTLS_ECDHE_RSA_AES_256_CBC_SHA1", <<192, 20>>, "GNUTLS_CIPHER_AES_256_CBC", "GNUTLS_KX_ECDHE_RSA", "GNUTLS_MAC_SHA1", GNUTLS_SSL3, GNUTLS_DTLS_VERSION_MIN),
    ENTRY_PRF("GNUTLS_ECDHE_RSA_AES_256_CBC_SHA384", <<192, 40>>, "GNUTLS_CIPHER_AES_256_CBC", "GNUTLS_KX_ECDHE_RSA", "GNUTLS_MAC_SHA384", GNUTLS_TLS1_2, GNUTLS_DTLS1_2, "GNUTLS_MAC_SHA384"),
    ENTRY("GNUTLS_ECDHE_RSA_ARCFOUR_128_SHA1", <<192, 17>>, "GNUTLS_CIPHER_ARCFOUR_128", "GNUTLS_KX_ECDHE_RSA", "GNUTLS_MAC_SHA1", GNUTLS_SSL3, GNUTLS_VERSION_UNKNOWN),
    ENTRY("GNUTLS_ECDHE_RSA_CAMELLIA_128_CBC_SHA256", <<192, 118>>, "GNUTLS_CIPHER_CAMELLIA_128_CBC", "GNUTLS_KX_ECDHE_RSA", "GNUTLS_MAC_SHA256", GNUTLS_TLS1_2, GNUTLS_DTLS1_2),
    ENTRY_PRF("GNUTLS_ECDHE_RSA_CAMELLIA_256_CBC_SHA384", <<192, 119>>, "GNUTLS_CIPHER_CAMELLIA_256_CBC", "GNUTLS_KX_ECDHE_RSA", "GNUTLS_MAC_SHA384", GNUTLS_TLS1_2, GNUTLS_DTLS1_2, "GNUTLS_MAC_SHA384"),
    ENTRY("GNUTLS_ECDHE_ECDSA_NULL_SHA1", <<192, 6>>, "GNUTLS_CIPHER_NULL", "GNUTLS_KX_ECDHE_ECDSA", "GNUTLS_MAC_SHA1", GNUTLS_SSL3, GNUTLS_DTLS_VERSION_MIN),
    ENTRY("GNUTLS_ECDHE_ECDSA_3DES_EDE_CBC_SHA1", <<192, 8>>, "GNUTLS_CIPHER_3DES_CBC", "GNUTLS_KX_ECDHE_ECDSA", "GNUTLS_MAC_SHA1", GNUTLS_SSL3, GNUTLS_DTLS_VERSION_MIN),
    ENTRY("GNUTLS_ECDHE_ECDSA_AES_128_CBC_SHA1", <<192, 9>>, "GNUTLS_CIPHER_AES_128_CBC", "GNUTLS_KX_ECDHE_ECDSA", "GNUTLS_MAC_SHA1", GNUTLS_SSL3, GNUTLS_DTLS_VERSION_MIN),
    ENTRY("GNUTLS_ECDHE_ECDSA_AES_256_CBC_SHA1", <<192, 10>>, "GNUTLS_CIPHER_AES_256_CBC", "GNUTLS_KX_ECDHE_ECDSA", "GNUTLS_MAC_SHA1", GNUTLS_SSL3, GNUTLS_DTLS_VERSION_MIN),
    ENTRY("GNUTLS_ECDHE_ECDSA_ARCFOUR_128_SHA1", <<192, 7>>, "GNUTLS_CIPHER_ARCFOUR_128", "GNUTLS_KX_ECDHE_ECDSA", "GNUTLS_MAC_SHA1", GNUTLS_SSL3, GNUTLS_VERSION_UNKNOWN),
    ENTRY("GNUTLS_ECDHE_ECDSA_CAMELLIA_128_CBC_SHA256", <<192, 114>>, "GNUTLS_CIPHER_CAMELLIA_128_CBC", "GNUTLS_KX_ECDHE_ECDSA", "GNUTLS_MAC_SHA256", GNUTLS_TLS1_2, GNUTLS_DTLS1_2),
    ENTRY_PRF("GNUTLS_ECDHE_ECDSA_CAMELLIA_256_CBC_SHA384", <<192, 115>>, "GNUTLS_CIPHER_CAMELLIA_256_CBC", "GNUTLS_KX_ECDHE_ECDSA", "GNUTLS_MAC_SHA384", GNUTLS_TLS1_2, GNUTLS_DTLS1_2, "GNUTLS_MAC_SHA384"),
    ENTRY("GNUTLS_ECDHE_ECDSA_AES_128_CBC_SHA256", <<192, 35>>, "GNUTLS_CIPHER_AES_128_CBC", "GNUTLS_KX_ECDHE_ECDSA", "GNUTLS_MAC_SHA256", GNUTLS_TLS1_2, GNUTLS_DTLS1_2),
    ENTRY("GNUTLS_ECDHE_RSA_AES_128_CBC_SHA256", <<192, 39>>, "GNUTLS_CIPHER_AES_128_CBC", "GNUTLS_KX_ECDHE_RSA", "GNUTLS_MAC_SHA256", GNUTLS_TLS1_2, GNUTLS_DTLS1_2),
    ENTRY("GNUTLS_ECDHE_ECDSA_CAMELLIA_128_GCM_SHA256", <<192, 134>>, "GNUTLS_CIPHER_CAMELLIA_128_GCM", "GNUTLS_KX_ECDHE_ECDSA", "GNUTLS_MAC_AEAD", GNUTLS_TLS1_2, GNUTLS_DTLS1_2),
    ENTRY_PRF("GNUTLS_ECDHE_ECDSA_CAMELLIA_256_GCM_SHA384", <<192, 135>>, "GNUTLS_CIPHER_CAMELLIA_256_GCM", "GNUTLS_KX_ECDHE_ECDSA", "GNUTLS_MAC_AEAD", GNUTLS_TLS1_2, GNUTLS_DTLS1_2, "GNUTLS_MAC_SHA384"),
    ENTRY("GNUTLS_ECDHE_ECDSA_AES_128_GCM_SHA256", <<192, 43>>, "GNUTLS_CIPHER_AES_128_GCM", "GNUTLS_KX_ECDHE_ECDSA", "GNUTLS_MAC_AEAD", GNUTLS_TLS1_2, GNUTLS_DTLS1_2),
    ENTRY_PRF("GNUTLS_ECDHE_ECDSA_AES_256_GCM_SHA384", <<192, 44>>, "GNUTLS_CIPHER_AES_256_GCM", "GNUTLS_KX_ECDHE_ECDSA", "GNUTLS_MAC_AEAD", GNUTLS_TLS1_2, GNUTLS_DTLS1_2, "GNUTLS_MAC_SHA384"),
    ENTRY("GNUTLS_ECDHE_RSA_AES_128_GCM_SHA256", <<192, 47>>, "GNUTLS_CIPHER_AES_128_GCM", "GNUTLS_KX_ECDHE_RSA", "GNUTLS_MAC_AEAD", GNUTLS_TLS1_2, GNUTLS_DTLS1_2),
    ENTRY_PRF("GNUTLS_ECDHE_RSA_AES_256_GCM_SHA384", <<192, 48>>, "GNUTLS_CIPHER_AES_256_GCM", "GNUTLS_KX_ECDHE_RSA", "GNUTLS_MAC_AEAD", GNUTLS_TLS1_2, GNUTLS_DTLS1_2, "GNUTLS_MAC_SHA384"),
    ENTRY_PRF("GNUTLS_ECDHE_ECDSA_AES_256_CBC_SHA384", <<192, 36>>, "GNUTLS_CIPHER_AES_256_CBC", "GNUTLS_KX_ECDHE_ECDSA", "GNUTLS_MAC_SHA384", GNUTLS_TLS1_2, GNUTLS_DTLS1_2, "GNUTLS_MAC_SHA384"),
    ENTRY("GNUTLS_ECDHE_RSA_CAMELLIA_128_GCM_SHA256", <<192, 138>>, "GNUTLS_CIPHER_CAMELLIA_128_GCM", "GNUTLS_KX_ECDHE_RSA", "GNUTLS_MAC_AEAD", GNUTLS_TLS1_2, GNUTLS_DTLS1_2),
    ENTRY_PRF("GNUTLS_ECDHE_RSA_CAMELLIA_256_GCM_SHA384", <<192, 139>>, "GNUTLS_CIPHER_CAMELLIA_256_GCM", "GNUTLS_KX_ECDHE_RSA", "GNUTLS_MAC_AEAD", GNUTLS_TLS1_2, GNUTLS_DTLS1_2, "GNUTLS_MAC_SHA384"),
    ENTRY("GNUTLS_ECDHE_RSA_CHACHA20_POLY1305", <<204, 168>>, "GNUTLS_CIPHER_CHACHA20_POLY1305", "GNUTLS_KX_ECDHE_RSA", "GNUTLS_MAC_AEAD", GNUTLS_TLS1_2, GNUTLS_DTLS1_2),
    ENTRY("GNUTLS_ECDHE_ECDSA_CHACHA20_POLY1305", <<204, 169>>, "GNUTLS_CIPHER_CHACHA20_POLY1305", "GNUTLS_KX_ECDHE_ECDSA", "GNUTLS_MAC_AEAD", GNUTLS_TLS1_2, GNUTLS_DTLS1_2),
    ENTRY("GNUTLS_ECDHE_ECDSA_AES_128_CCM", <<192, 172>>, "GNUTLS_CIPHER_AES_128_CCM", "GNUTLS_KX_ECDHE_ECDSA", "GNUTLS_MAC_AEAD", GNUTLS_TLS1_2, GNUTLS_DTLS1_2),
    ENTRY("GNUTLS_ECDHE_ECDSA_AES_256_CCM", <<192, 173>>, "GNUTLS_CIPHER_AES_256_CCM", "GNUTLS_KX_ECDHE_ECDSA", "GNUTLS_MAC_AEAD", GNUTLS_TLS1_2, GNUTLS_DTLS1_2),
    ENTRY("GNUTLS_ECDHE_ECDSA_AES_128_CCM_8", <<192, 174>>, "GNUTLS_CIPHER_AES_128_CCM_8", "GNUTLS_KX_ECDHE_ECDSA", "GNUTLS_MAC_AEAD", GNUTLS_TLS1_2, GNUTLS_DTLS1_2),
    ENTRY("GNUTLS_ECDHE_ECDSA_AES_256_CCM_8", <<192, 175>>, "GNUTLS_CIPHER_AES_256_CCM_8", "GNUTLS_KX_ECDHE_ECDSA", "GNUTLS_MAC_AEAD", GNUTLS_TLS1_2, GNUTLS_DTLS1_2),
    ENTRY("GNUTLS_ECDHE_PSK_3DES_EDE_CBC_SHA1", <<192, 52>>, "GNUTLS_CIPHER_3DES_CBC", "GNUTLS_KX_ECDHE_PSK", "GNUTLS_MAC_SHA1", GNUTLS_SSL3, GNUTLS_DTLS_VERSION_MIN),
    ENTRY("GNUTLS_ECDHE_PSK_AES_128_CBC_SHA1", <<192, 53>>, "GNUTLS_CIPHER_AES_128_CBC", "GNUTLS_KX_ECDHE_PSK", "GNUTLS_MAC_SHA1", GNUTLS_SSL3, GNUTLS_DTLS_VERSION_MIN),
    ENTRY("GNUTLS_ECDHE_PSK_AES_256_CBC_SHA1", <<192, 54>>, "GNUTLS_CIPHER_AES_256_CBC", "GNUTLS_KX_ECDHE_PSK", "GNUTLS_MAC_SHA1", GNUTLS_SSL3, GNUTLS_DTLS_VERSION_MIN),
    ENTRY("GNUTLS_ECDHE_PSK_AES_128_CBC_SHA256", <<192, 55>>, "GNUTLS_CIPHER_AES_128_CBC", "GNUTLS_KX_ECDHE_PSK", "GNUTLS_MAC_SHA256", GNUTLS_TLS1_2, GNUTLS_DTLS1_2),
    ENTRY_PRF("GNUTLS_ECDHE_PSK_AES_256_CBC_SHA384", <<192, 56>>, "GNUTLS_CIPHER_AES_256_CBC", "GNUTLS_KX_ECDHE_PSK", "GNUTLS_MAC_SHA384", GNUTLS_TLS1_2, GNUTLS_DTLS1_2, "GNUTLS_MAC_SHA384"),
    ENTRY("GNUTLS_ECDHE_PSK_ARCFOUR_128_SHA1", <<192, 51>>, "GNUTLS_CIPHER_ARCFOUR_128", "GNUTLS_KX_ECDHE_PSK", "GNUTLS_MAC_SHA1", GNUTLS_SSL3, GNUTLS_VERSION_UNKNOWN),
    ENTRY("GNUTLS_ECDHE_PSK_NULL_SHA1", <<192, 57>>, "GNUTLS_CIPHER_NULL", "GNUTLS_KX_ECDHE_PSK", "GNUTLS_MAC_SHA1", GNUTLS_SSL3, GNUTLS_DTLS_VERSION_MIN),
    ENTRY("GNUTLS_ECDHE_PSK_NULL_SHA256", <<192, 58>>, "GNUTLS_CIPHER_NULL", "GNUTLS_KX_ECDHE_PSK", "GNUTLS_MAC_SHA256", GNUTLS_TLS1_2, GNUTLS_DTLS1_2),
    ENTRY_PRF("GNUTLS_ECDHE_PSK_NULL_SHA384", <<192, 59>>, "GNUTLS_CIPHER_NULL", "GNUTLS_KX_ECDHE_PSK", "GNUTLS_MAC_SHA384", GNUTLS_TLS1, GNUTLS_DTLS1_2, "GNUTLS_MAC_SHA384"),
    ENTRY("GNUTLS_ECDHE_PSK_CAMELLIA_128_CBC_SHA256", <<192, 154>>, "GNUTLS_CIPHER_CAMELLIA_128_CBC", "GNUTLS_KX_ECDHE_PSK", "GNUTLS_MAC_SHA256", GNUTLS_TLS1_2, GNUTLS_DTLS1_2),
    ENTRY_PRF("GNUTLS_ECDHE_PSK_CAMELLIA_256_CBC_SHA384", <<192, 155>>, "GNUTLS_CIPHER_CAMELLIA_256_CBC", "GNUTLS_KX_ECDHE_PSK", "GNUTLS_MAC_SHA384", GNUTLS_TLS1_2, GNUTLS_DTLS1_2, "GNUTLS_MAC_SHA384"),
    ENTRY("GNUTLS_PSK_ARCFOUR_128_SHA1", <<0, 138>>, "GNUTLS_CIPHER_ARCFOUR_128", "GNUTLS_KX_PSK", "GNUTLS_MAC_SHA1", GNUTLS_SSL3, GNUTLS_VERSION_UNKNOWN),
    ENTRY("GNUTLS_PSK_3DES_EDE_CBC_SHA1", <<0, 139>>, "GNUTLS_CIPHER_3DES_CBC", "GNUTLS_KX_PSK", "GNUTLS_MAC_SHA1", GNUTLS_SSL3, GNUTLS_DTLS_VERSION_MIN),
    ENTRY("GNUTLS_PSK_AES_128_CBC_SHA1", <<0, 140>>, "GNUTLS_CIPHER_AES_128_CBC", "GNUTLS_KX_PSK", "GNUTLS_MAC_SHA1", GNUTLS_SSL3, GNUTLS_DTLS_VERSION_MIN),
    ENTRY("GNUTLS_PSK_AES_256_CBC_SHA1", <<0, 141>>, "GNUTLS_CIPHER_AES_256_CBC", "GNUTLS_KX_PSK", "GNUTLS_MAC_SHA1", GNUTLS_SSL3, GNUTLS_DTLS_VERSION_MIN),
    ENTRY("GNUTLS_PSK_AES_128_CBC_SHA256", <<0, 174>>, "GNUTLS_CIPHER_AES_128_CBC", "GNUTLS_KX_PSK", "GNUTLS_MAC_SHA256", GNUTLS_TLS1_2, GNUTLS_DTLS1_2),
    ENTRY_PRF("GNUTLS_PSK_AES_256_GCM_SHA384", <<0, 169>>, "GNUTLS_CIPHER_AES_256_GCM", "GNUTLS_KX_PSK", "GNUTLS_MAC_AEAD", GNUTLS_TLS1_2, GNUTLS_DTLS1_2, "GNUTLS_MAC_SHA384"),
    ENTRY("GNUTLS_PSK_CAMELLIA_128_GCM_SHA256", <<192, 142>>, "GNUTLS_CIPHER_CAMELLIA_128_GCM", "GNUTLS_KX_PSK", "GNUTLS_MAC_AEAD", GNUTLS_TLS1_2, GNUTLS_DTLS1_2),
    ENTRY_PRF("GNUTLS_PSK_CAMELLIA_256_GCM_SHA384", <<192, 143>>, "GNUTLS_CIPHER_CAMELLIA_256_GCM", "GNUTLS_KX_PSK", "GNUTLS_MAC_AEAD", GNUTLS_TLS1_2, GNUTLS_DTLS1_2, "GNUTLS_MAC_SHA384"),
    ENTRY("GNUTLS_PSK_AES_128_GCM_SHA256", <<0, 168>>, "GNUTLS_CIPHER_AES_128_GCM", "GNUTLS_KX_PSK", "GNUTLS_MAC_AEAD", GNUTLS_TLS1_2, GNUTLS_DTLS1_2),
    ENTRY("GNUTLS_PSK_NULL_SHA1", <<0, 44>>, "GNUTLS_CIPHER_NULL", "GNUTLS_KX_PSK", "GNUTLS_MAC_SHA1", GNUTLS_SSL3, GNUTLS_DTLS_VERSION_MIN),
    ENTRY("GNUTLS_PSK_NULL_SHA256", <<0, 176>>, "GNUTLS_CIPHER_NULL", "GNUTLS_KX_PSK", "GNUTLS_MAC_SHA256", GNUTLS_TLS1_2, GNUTLS_DTLS1_2),
    ENTRY("GNUTLS_PSK_CAMELLIA_128_CBC_SHA256", <<192, 148>>, "GNUTLS_CIPHER_CAMELLIA_128_CBC", "GNUTLS_KX_PSK", "GNUTLS_MAC_SHA256", GNUTLS_TLS1_2, GNUTLS_DTLS1_2),
    ENTRY_PRF("GNUTLS_PSK_CAMELLIA_256_CBC_SHA384", <<192, 149>>, "GNUTLS_CIPHER_CAMELLIA_256_CBC", "GNUTLS_KX_PSK", "GNUTLS_MAC_SHA384", GNUTLS_TLS1_2, GNUTLS_DTLS1_2, "GNUTLS_MAC_SHA384"),
    ENTRY_PRF("GNUTLS_PSK_AES_256_CBC_SHA384", <<0, 175>>, "GNUTLS_CIPHER_AES_256_CBC", "GNUTLS_KX_PSK", "GNUTLS_MAC_SHA384", GNUTLS_TLS1_2, GNUTLS_DTLS1_2, "GNUTLS_MAC_SHA384"),
    ENTRY_PRF("GNUTLS_PSK_NULL_SHA384", <<0, 177>>, "GNUTLS_CIPHER_NULL", "GNUTLS_KX_PSK", "GNUTLS_MAC_SHA384", GNUTLS_TLS1_2, GNUTLS_DTLS1_2, "GNUTLS_MAC_SHA384"),
    ENTRY("GNUTLS_RSA_PSK_ARCFOUR_128_SHA1", <<0, 146>>, "GNUTLS_CIPHER_ARCFOUR_128", "GNUTLS_KX_RSA_PSK", "GNUTLS_MAC_SHA1", GNUTLS_TLS1, GNUTLS_VERSION_UNKNOWN),
    ENTRY("GNUTLS_RSA_PSK_3DES_EDE_CBC_SHA1", <<0, 147>>, "GNUTLS_CIPHER_3DES_CBC", "GNUTLS_KX_RSA_PSK", "GNUTLS_MAC_SHA1", GNUTLS_TLS1, GNUTLS_DTLS_VERSION_MIN),
    ENTRY("GNUTLS_RSA_PSK_AES_128_CBC_SHA1", <<0, 148>>, "GNUTLS_CIPHER_AES_128_CBC", "GNUTLS_KX_RSA_PSK", "GNUTLS_MAC_SHA1", GNUTLS_TLS1, GNUTLS_DTLS_VERSION_MIN),
    ENTRY("GNUTLS_RSA_PSK_AES_256_CBC_SHA1", <<0, 149>>, "GNUTLS_CIPHER_AES_256_CBC", "GNUTLS_KX_RSA_PSK", "GNUTLS_MAC_SHA1", GNUTLS_TLS1, GNUTLS_DTLS_VERSION_MIN),
    ENTRY("GNUTLS_RSA_PSK_CAMELLIA_128_GCM_SHA256", <<192, 146>>, "GNUTLS_CIPHER_CAMELLIA_128_GCM", "GNUTLS_KX_RSA_PSK", "GNUTLS_MAC_AEAD", GNUTLS_TLS1_2, GNUTLS_DTLS1_2),
    ENTRY_PRF("GNUTLS_RSA_PSK_CAMELLIA_256_GCM_SHA384", <<192, 147>>, "GNUTLS_CIPHER_CAMELLIA_256_GCM", "GNUTLS_KX_RSA_PSK", "GNUTLS_MAC_AEAD", GNUTLS_TLS1_2, GNUTLS_DTLS1_2, "GNUTLS_MAC_SHA384"),
    ENTRY("GNUTLS_RSA_PSK_AES_128_GCM_SHA256", <<0, 172>>, "GNUTLS_CIPHER_AES_128_GCM", "GNUTLS_KX_RSA_PSK", "GNUTLS_MAC_AEAD", GNUTLS_TLS1_2, GNUTLS_DTLS1_2),
    ENTRY("GNUTLS_RSA_PSK_AES_128_CBC_SHA256", <<0, 182>>, "GNUTLS_CIPHER_AES_128_CBC", "GNUTLS_KX_RSA_PSK", "GNUTLS_MAC_SHA256", GNUTLS_TLS1_2, GNUTLS_DTLS1_2),
    ENTRY("GNUTLS_RSA_PSK_NULL_SHA1", <<0, 46>>, "GNUTLS_CIPHER_NULL", "GNUTLS_KX_RSA_PSK", "GNUTLS_MAC_SHA1", GNUTLS_TLS1, GNUTLS_DTLS_VERSION_MIN),
    ENTRY("GNUTLS_RSA_PSK_NULL_SHA256", <<0, 184>>, "GNUTLS_CIPHER_NULL", "GNUTLS_KX_RSA_PSK", "GNUTLS_MAC_SHA256", GNUTLS_TLS1_2, GNUTLS_DTLS1_2),
    ENTRY_PRF("GNUTLS_RSA_PSK_AES_256_GCM_SHA384", <<0, 173>>, "GNUTLS_CIPHER_AES_256_GCM", "GNUTLS_KX_RSA_PSK", "GNUTLS_MAC_AEAD", GNUTLS_TLS1_2, GNUTLS_DTLS1_2, "GNUTLS_MAC_SHA384"),
    ENTRY_PRF("GNUTLS_RSA_PSK_AES_256_CBC_SHA384", <<0, 183>>, "GNUTLS_CIPHER_AES_256_CBC", "GNUTLS_KX_RSA_PSK", "GNUTLS_MAC_SHA384", GNUTLS_TLS1_2, GNUTLS_DTLS1_2, "GNUTLS_MAC_SHA384"),
    ENTRY_PRF("GNUTLS_RSA_PSK_NULL_SHA384", <<0, 185>>, "GNUTLS_CIPHER_NULL", "GNUTLS_KX_RSA_PSK", "GNUTLS_MAC_SHA384", GNUTLS_TLS1_2, GNUTLS_DTLS1_2, "GNUTLS_MAC_SHA384"),
    ENTRY("GNUTLS_RSA_PSK_CAMELLIA_128_CBC_SHA256", <<192, 152>>, "GNUTLS_CIPHER_CAMELLIA_128_CBC", "GNUTLS_KX_RSA_PSK", "GNUTLS_MAC_SHA256", GNUTLS_TLS1_2, GNUTLS_DTLS1_2),
    ENTRY_PRF("GNUTLS_RSA_PSK_CAMELLIA_256_CBC_SHA384", <<192, 153>>, "GNUTLS_CIPHER_CAMELLIA_256_CBC", "GNUTLS_KX_RSA_PSK", "GNUTLS_MAC_SHA384", GNUTLS_TLS1_2, GNUTLS_DTLS1_2, "GNUTLS_MAC_SHA384"),
    ENTRY("GNUTLS_DHE_PSK_ARCFOUR_128_SHA1", <<0, 142>>, "GNUTLS_CIPHER_ARCFOUR_128", "GNUTLS_KX_DHE_PSK", "GNUTLS_MAC_SHA1", GNUTLS_SSL3, GNUTLS_VERSION_UNKNOWN),
    ENTRY("GNUTLS_DHE_PSK_3DES_EDE_CBC_SHA1", <<0, 143>>, "GNUTLS_CIPHER_3DES_CBC", "GNUTLS_KX_DHE_PSK", "GNUTLS_MAC_SHA1", GNUTLS_SSL3, GNUTLS_DTLS_VERSION_MIN),
    ENTRY("GNUTLS_DHE_PSK_AES_128_CBC_SHA1", <<0, 144>>, "GNUTLS_CIPHER_AES_128_CBC", "GNUTLS_KX_DHE_PSK", "GNUTLS_MAC_SHA1", GNUTLS_SSL3, GNUTLS_DTLS_VERSION_MIN),
    ENTRY("GNUTLS_DHE_PSK_AES_256_CBC_SHA1", <<0, 145>>, "GNUTLS_CIPHER_AES_256_CBC", "GNUTLS_KX_DHE_PSK", "GNUTLS_MAC_SHA1", GNUTLS_SSL3, GNUTLS_DTLS_VERSION_MIN),
    ENTRY("GNUTLS_DHE_PSK_AES_128_CBC_SHA256", <<0, 178>>, "GNUTLS_CIPHER_AES_128_CBC", "GNUTLS_KX_DHE_PSK", "GNUTLS_MAC_SHA256", GNUTLS_TLS1_2, GNUTLS_DTLS1_2),
    ENTRY("GNUTLS_DHE_PSK_AES_128_GCM_SHA256", <<0, 170>>, "GNUTLS_CIPHER_AES_128_GCM", "GNUTLS_KX_DHE_PSK", "GNUTLS_MAC_AEAD", GNUTLS_TLS1_2, GNUTLS_DTLS1_2),
    ENTRY("GNUTLS_DHE_PSK_NULL_SHA1", <<0, 45>>, "GNUTLS_CIPHER_NULL", "GNUTLS_KX_DHE_PSK", "GNUTLS_MAC_SHA1", GNUTLS_SSL3, GNUTLS_DTLS_VERSION_MIN),
    ENTRY("GNUTLS_DHE_PSK_NULL_SHA256", <<0, 180>>, "GNUTLS_CIPHER_NULL", "GNUTLS_KX_DHE_PSK", "GNUTLS_MAC_SHA256", GNUTLS_TLS1_2, GNUTLS_DTLS1_2),
    ENTRY_PRF("GNUTLS_DHE_PSK_NULL_SHA384", <<0, 181>>, "GNUTLS_CIPHER_NULL", "GNUTLS_KX_DHE_PSK", "GNUTLS_MAC_SHA384", GNUTLS_TLS1_2, GNUTLS_DTLS1_2, "GNUTLS_MAC_SHA384"),
    ENTRY_PRF("GNUTLS_DHE_PSK_AES_256_CBC_SHA384", <<0, 179>>, "GNUTLS_CIPHER_AES_256_CBC", "GNUTLS_KX_DHE_PSK", "GNUTLS_MAC_SHA384", GNUTLS_TLS1_2, GNUTLS_DTLS1_2, "GNUTLS_MAC_SHA384"),
    ENTRY_PRF("GNUTLS_DHE_PSK_AES_256_GCM_SHA384", <<0, 171>>, "GNUTLS_CIPHER_AES_256_GCM", "GNUTLS_KX_DHE_PSK", "GNUTLS_MAC_AEAD", GNUTLS_TLS1_2, GNUTLS_DTLS1_2, "GNUTLS_MAC_SHA384"),
    ENTRY("GNUTLS_DHE_PSK_CAMELLIA_128_CBC_SHA256", <<192, 150>>, "GNUTLS_CIPHER_CAMELLIA_128_CBC", "GNUTLS_KX_DHE_PSK", "GNUTLS_MAC_SHA256", GNUTLS_TLS1_2, GNUTLS_DTLS1_2),
    ENTRY_PRF("GNUTLS_DHE_PSK_CAMELLIA_256_CBC_SHA384", <<192, 151>>, "GNUTLS_CIPHER_CAMELLIA_256_CBC", "GNUTLS_KX_DHE_PSK", "GNUTLS_MAC_SHA384", GNUTLS_TLS1_2, GNUTLS_DTLS1_2, "GNUTLS_MAC_SHA384"),
    ENTRY("GNUTLS_DHE_PSK_CAMELLIA_128_GCM_SHA256", <<192, 144>>, "GNUTLS_CIPHER_CAMELLIA_128_GCM", "GNUTLS_KX_DHE_PSK", "GNUTLS_MAC_AEAD", GNUTLS_TLS1_2, GNUTLS_DTLS1_2),
    ENTRY_PRF("GNUTLS_DHE_PSK_CAMELLIA_256_GCM_SHA384", <<192, 145>>, "GNUTLS_CIPHER_CAMELLIA_256_GCM", "GNUTLS_KX_DHE_PSK", "GNUTLS_MAC_AEAD", GNUTLS_TLS1_2, GNUTLS_DTLS1_2, "GNUTLS_MAC_SHA384"),
    ENTRY("GNUTLS_PSK_AES_128_CCM", <<192, 164>>, "GNUTLS_CIPHER_AES_128_CCM", "GNUTLS_KX_PSK", "GNUTLS_MAC_AEAD", GNUTLS_TLS1_2, GNUTLS_DTLS1_2),
    ENTRY("GNUTLS_PSK_AES_256_CCM", <<192, 165>>, "GNUTLS_CIPHER_AES_256_CCM", "GNUTLS_KX_PSK", "GNUTLS_MAC_AEAD", GNUTLS_TLS1_2, GNUTLS_DTLS1_2),
    ENTRY("GNUTLS_DHE_PSK_AES_128_CCM", <<192, 166>>, "GNUTLS_CIPHER_AES_128_CCM", "GNUTLS_KX_DHE_PSK", "GNUTLS_MAC_AEAD", GNUTLS_TLS1_2, GNUTLS_DTLS1_2),
    ENTRY("GNUTLS_DHE_PSK_AES_256_CCM", <<192, 167>>, "GNUTLS_CIPHER_AES_256_CCM", "GNUTLS_KX_DHE_PSK", "GNUTLS_MAC_AEAD", GNUTLS_TLS1_2, GNUTLS_DTLS1_2),
    ENTRY("GNUTLS_PSK_AES_128_CCM_8", <<192, 168>>, "GNUTLS_CIPHER_AES_128_CCM_8", "GNUTLS_KX_PSK", "GNUTLS_MAC_AEAD", GNUTLS_TLS1_2, GNUTLS_DTLS1_2),
    ENTRY("GNUTLS_PSK_AES_256_CCM_8", <<192, 169>>, "GNUTLS_CIPHER_AES_256_CCM_8", "GNUTLS_KX_PSK", "GNUTLS_MAC_AEAD", GNUTLS_TLS1_2, GNUTLS_DTLS1_2),
    ENTRY("GNUTLS_DHE_PSK_AES_128_CCM_8", <<192, 170>>, "GNUTLS_CIPHER_AES_128_CCM_8", "GNUTLS_KX_DHE_PSK", "GNUTLS_MAC_AEAD", GNUTLS_TLS1_2, GNUTLS_DTLS1_2),
    ENTRY("GNUTLS_DHE_PSK_AES_256_CCM_8", <<192, 171>>, "GNUTLS_CIPHER_AES_256_CCM_8", "GNUTLS_KX_DHE_PSK", "GNUTLS_MAC_AEAD", GNUTLS_TLS1_2, GNUTLS_DTLS1_2),
    ENTRY("GNUTLS_DHE_PSK_CHACHA20_POLY1305", <<204, 173>>, "GNUTLS_CIPHER_CHACHA20_POLY1305", "GNUTLS_KX_DHE_PSK", "GNUTLS_MAC_AEAD", GNUTLS_TLS1_2, GNUTLS_DTLS1_2),
    ENTRY("GNUTLS_ECDHE_PSK_CHACHA20_POLY1305", <<204, 172>>, "GNUTLS_CIPHER_CHACHA20_POLY1305", "GNUTLS_KX_ECDHE_PSK", "GNUTLS_MAC_AEAD", GNUTLS_TLS1_2, GNUTLS_DTLS1_2),
    ENTRY("GNUTLS_RSA_PSK_CHACHA20_POLY1305", <<204, 174>>, "GNUTLS_CIPHER_CHACHA20_POLY1305", "GNUTLS_KX_RSA_PSK", "GNUTLS_MAC_AEAD", GNUTLS_TLS1_2, GNUTLS_DTLS1_2),
    ENTRY("GNUTLS_PSK_CHACHA20_POLY1305", <<204, 171>>, "GNUTLS_CIPHER_CHACHA20_POLY1305", "GNUTLS_KX_PSK", "GNUTLS_MAC_AEAD", GNUTLS_TLS1_2, GNUTLS_DTLS1_2),
    ENTRY("GNUTLS_DH_ANON_ARCFOUR_128_MD5", <<0, 24>>, "GNUTLS_CIPHER_ARCFOUR_128", "GNUTLS_KX_ANON_DH", "GNUTLS_MAC_MD5", GNUTLS_SSL3, GNUTLS_VERSION_UNKNOWN),
    ENTRY("GNUTLS_DH_ANON_3DES_EDE_CBC_SHA1", <<0, 27>>, "GNUTLS_CIPHER_3DES_CBC", "GNUTLS_KX_ANON_DH", "GNUTLS_MAC_SHA1", GNUTLS_SSL3, GNUTLS_DTLS_VERSION_MIN),
    ENTRY("GNUTLS_DH_ANON_AES_128_CBC_SHA1", <<0, 52>>, "GNUTLS_CIPHER_AES_128_CBC", "GNUTLS_KX_ANON_DH", "GNUTLS_MAC_SHA1", GNUTLS_SSL3, GNUTLS_DTLS_VERSION_MIN),
    ENTRY("GNUTLS_DH_ANON_AES_256_CBC_SHA1", <<0, 58>>, "GNUTLS_CIPHER_AES_256_CBC", "GNUTLS_KX_ANON_DH", "GNUTLS_MAC_SHA1", GNUTLS_SSL3, GNUTLS_DTLS_VERSION_MIN),
    ENTRY("GNUTLS_DH_ANON_CAMELLIA_128_CBC_SHA256", <<0, 191>>, "GNUTLS_CIPHER_CAMELLIA_128_CBC", "GNUTLS_KX_ANON_DH", "GNUTLS_MAC_SHA256", GNUTLS_TLS1_2, GNUTLS_DTLS1_2),
    ENTRY("GNUTLS_DH_ANON_CAMELLIA_256_CBC_SHA256", <<0, 197>>, "GNUTLS_CIPHER_CAMELLIA_256_CBC", "GNUTLS_KX_ANON_DH", "GNUTLS_MAC_SHA256", GNUTLS_TLS1_2, GNUTLS_DTLS1_2),
    ENTRY("GNUTLS_DH_ANON_CAMELLIA_128_CBC_SHA1", <<0, 70>>, "GNUTLS_CIPHER_CAMELLIA_128_CBC", "GNUTLS_KX_ANON_DH", "GNUTLS_MAC_SHA1", GNUTLS_SSL3, GNUTLS_DTLS_VERSION_MIN),
    ENTRY("GNUTLS_DH_ANON_CAMELLIA_256_CBC_SHA1", <<0, 137>>, "GNUTLS_CIPHER_CAMELLIA_256_CBC", "GNUTLS_KX_ANON_DH", "GNUTLS_MAC_SHA1", GNUTLS_SSL3, GNUTLS_DTLS_VERSION_MIN),
    ENTRY("GNUTLS_DH_ANON_AES_128_CBC_SHA256", <<0, 108>>, "GNUTLS_CIPHER_AES_128_CBC", "GNUTLS_KX_ANON_DH", "GNUTLS_MAC_SHA256", GNUTLS_TLS1_2, GNUTLS_DTLS1_2),
    ENTRY("GNUTLS_DH_ANON_AES_256_CBC_SHA256", <<0, 109>>, "GNUTLS_CIPHER_AES_256_CBC", "GNUTLS_KX_ANON_DH", "GNUTLS_MAC_SHA256", GNUTLS_TLS1_2, GNUTLS_DTLS1_2),
    ENTRY("GNUTLS_DH_ANON_AES_128_GCM_SHA256", <<0, 166>>, "GNUTLS_CIPHER_AES_128_GCM", "GNUTLS_KX_ANON_DH", "GNUTLS_MAC_AEAD", GNUTLS_TLS1_2, GNUTLS_DTLS1_2),
    ENTRY_PRF("GNUTLS_DH_ANON_AES_256_GCM_SHA384", <<0, 167>>, "GNUTLS_CIPHER_AES_256_GCM", "GNUTLS_KX_ANON_DH", "GNUTLS_MAC_AEAD", GNUTLS_TLS1_2, GNUTLS_DTLS1_2, "GNUTLS_MAC_SHA384"),
    ENTRY("GNUTLS_DH_ANON_CAMELLIA_128_GCM_SHA256", <<192, 132>>, "GNUTLS_CIPHER_CAMELLIA_128_GCM", "GNUTLS_KX_ANON_DH", "GNUTLS_MAC_AEAD", GNUTLS_TLS1_2, GNUTLS_DTLS1_2),
    ENTRY_PRF("GNUTLS_DH_ANON_CAMELLIA_256_GCM_SHA384", <<192, 133>>, "GNUTLS_CIPHER_CAMELLIA_256_GCM", "GNUTLS_KX_ANON_DH", "GNUTLS_MAC_AEAD", GNUTLS_TLS1_2, GNUTLS_DTLS1_2, "GNUTLS_MAC_SHA384"),
    ENTRY("GNUTLS_ECDH_ANON_NULL_SHA1", <<192, 21>>, "GNUTLS_CIPHER_NULL", "GNUTLS_KX_ANON_ECDH", "GNUTLS_MAC_SHA1", GNUTLS_SSL3, GNUTLS_DTLS_VERSION_MIN),
    ENTRY("GNUTLS_ECDH_ANON_3DES_EDE_CBC_SHA1", <<192, 23>>, "GNUTLS_CIPHER_3DES_CBC", "GNUTLS_KX_ANON_ECDH", "GNUTLS_MAC_SHA1", GNUTLS_SSL3, GNUTLS_DTLS_VERSION_MIN),
    ENTRY("GNUTLS_ECDH_ANON_AES_128_CBC_SHA1", <<192, 24>>, "GNUTLS_CIPHER_AES_128_CBC", "GNUTLS_KX_ANON_ECDH", "GNUTLS_MAC_SHA1", GNUTLS_SSL3, GNUTLS_DTLS_VERSION_MIN),
    ENTRY("GNUTLS_ECDH_ANON_AES_256_CBC_SHA1", <<192, 25>>, "GNUTLS_CIPHER_AES_256_CBC", "GNUTLS_KX_ANON_ECDH", "GNUTLS_MAC_SHA1", GNUTLS_SSL3, GNUTLS_DTLS_VERSION_MIN),
    ENTRY("GNUTLS_ECDH_ANON_ARCFOUR_128_SHA1", <<192, 22>>, "GNUTLS_CIPHER_ARCFOUR_128", "GNUTLS_KX_ANON_ECDH", "GNUTLS_MAC_SHA1", GNUTLS_SSL3, GNUTLS_VERSION_UNKNOWN),
    ENTRY("GNUTLS_SRP_SHA_3DES_EDE_CBC_SHA1", <<192, 26>>, "GNUTLS_CIPHER_3DES_CBC", "GNUTLS_KX_SRP", "GNUTLS_MAC_SHA1", GNUTLS_SSL3, GNUTLS_DTLS_VERSION_MIN),
    ENTRY("GNUTLS_SRP_SHA_AES_128_CBC_SHA1", <<192, 29>>, "GNUTLS_CIPHER_AES_128_CBC", "GNUTLS_KX_SRP", "GNUTLS_MAC_SHA1", GNUTLS_SSL3, GNUTLS_DTLS_VERSION_MIN),
    ENTRY("GNUTLS_SRP_SHA_AES_256_CBC_SHA1", <<192, 32>>, "GNUTLS_CIPHER_AES_256_CBC", "GNUTLS_KX_SRP", "GNUTLS_MAC_SHA1", GNUTLS_SSL3, GNUTLS_DTLS_VERSION_MIN),
    ENTRY("GNUTLS_SRP_SHA_DSS_3DES_EDE_CBC_SHA1", <<192, 28>>, "GNUTLS_CIPHER_3DES_CBC", "GNUTLS_KX_SRP_DSS", "GNUTLS_MAC_SHA1", GNUTLS_SSL3, GNUTLS_DTLS_VERSION_MIN),
    ENTRY("GNUTLS_SRP_SHA_RSA_3DES_EDE_CBC_SHA1", <<192, 27>>, "GNUTLS_CIPHER_3DES_CBC", "GNUTLS_KX_SRP_RSA", "GNUTLS_MAC_SHA1", GNUTLS_SSL3, GNUTLS_DTLS_VERSION_MIN),
    ENTRY("GNUTLS_SRP_SHA_DSS_AES_128_CBC_SHA1", <<192, 31>>, "GNUTLS_CIPHER_AES_128_CBC", "GNUTLS_KX_SRP_DSS", "GNUTLS_MAC_SHA1", GNUTLS_SSL3, GNUTLS_DTLS_VERSION_MIN),
    ENTRY("GNUTLS_SRP_SHA_RSA_AES_128_CBC_SHA1", <<192, 30>>, "GNUTLS_CIPHER_AES_128_CBC", "GNUTLS_KX_SRP_RSA", "GNUTLS_MAC_SHA1", GNUTLS_SSL3, GNUTLS_DTLS_VERSION_MIN),
    ENTRY("GNUTLS_SRP_SHA_DSS_AES_256_CBC_SHA1", <<192, 34>>, "GNUTLS_CIPHER_AES_256_CBC", "GNUTLS_KX_SRP_DSS", "GNUTLS_MAC_SHA1", GNUTLS_SSL3, GNUTLS_DTLS_VERSION_MIN),
    ENTRY("GNUTLS_SRP_SHA_RSA_AES_256_CBC_SHA1", <<192, 33>>, "GNUTLS_CIPHER_AES_256_CBC", "GNUTLS_KX_SRP_RSA", "GNUTLS_MAC_SHA1", GNUTLS_SSL3, GNUTLS_DTLS_VERSION_MIN),
    ENTRY_PRF("GNUTLS_GOSTR341112_256_28147_CNT_IMIT", <<193, 2>>, "GNUTLS_CIPHER_GOST28147_TC26Z_CNT", "GNUTLS_KX_VKO_GOST_12", "GNUTLS_MAC_GOST28147_TC26Z_IMIT", GNUTLS_TLS1_2, GNUTLS_VERSION_UNKNOWN, "GNUTLS_MAC_STREEBOG_256")
>>

CIPHER_SUITES_COUNT == Len(cs_algorithms)

(* ------------------------------------------------------------------ *)
(* State.                                                              *)
(* ------------------------------------------------------------------ *)
VARIABLES
    session,        \* the gnutls_session_t fields read or written here
    peer_clist,     \* ciphersuite_list_st parsed from the peer's hello
    enable_ssl3,    \* build: ENABLE_SSL3 defined
    pc,             \* "start" before the call, "done" after it returned
    ret,            \* return value of the operation
    ce,             \* *ce of _gnutls_figure_common_ciphersuite
    cert_calls,     \* calls made to _gnutls_select_server_cert: <<suite, ok>>
    cdata,          \* gnutls_buffer_st the client offer is appended to (bytes)
    add_scsv,       \* argument of _gnutls_get_client_ciphersuites
    cipher_suites,  \* its local array, as far as it was written
    init_length,    \* its local init_length
    pcache,         \* gnutls_priority_t of gnutls_priority_get_cipher_suite_index
    idx,            \* its idx argument
    sidx,           \* *sidx
    crypto_exists,  \* build: ciphers and MACs the crypto backend provides
    query,          \* registry lookup about to be made: function and arguments
    answer,         \* its return value and output arguments
    state,          \* GNUTLS_STATE fields of the max-record extension
    ext_data        \* data of _gnutls_max_record_recv_params, data_size bytes

vars == <<session, peer_clist, enable_ssl3, pc, ret, ce, cert_calls,
          cdata, add_scsv, cipher_suites, init_length, pcache, idx, sidx,
          crypto_exists, query, answer, state, ext_data>>

\* Variables of the client offer and of the index mapper.
offer_vars == <<cdata, add_scsv, cipher_suites, init_length>>
index_vars == <<pcache, idx, sidx, crypto_exists>>
registry_vars == <<query, answer>>
mre_vars == <<state, ext_data>>

HSK_PSK_SELECTED == "HSK_PSK_SELECTED"
HSK_HAVE_FFDHE == "HSK_HAVE_FFDHE"
GNUTLS_CRD_CERTIFICATE == "GNUTLS_CRD_CERTIFICATE"
GNUTLS_CRD_ANON == "GNUTLS_CRD_ANON"
GNUTLS_CRD_SRP == "GNUTLS_CRD_SRP"
GNUTLS_CRD_PSK == "GNUTLS_CRD_PSK"
DEFAULT_EC_GROUP == "GNUTLS_ECC_CURVE_SECP256R1"
NULL_CRED == {}
NULL_VERSION == 0
NULL_ENTRY == 0

Range(s) == {s[k] : k \in DOMAIN s}

(* ------------------------------------------------------------------ *)
(* Library helpers the file calls.                                     *)
(* ------------------------------------------------------------------ *)
\* Minimum TLS version of a row: without ENABLE_SSL3 the preprocessor
\* turns GNUTLS_SSL3 into GNUTLS_TLS1.
min_version(entry) ==
    IF entry.min_version = GNUTLS_SSL3 /\ ~enable_ssl3
    THEN GNUTLS_TLS1 ELSE entry.min_version

gnutls_kx_is_ecc(kx) ==
    kx \in {"GNUTLS_KX_ECDHE_RSA", "GNUTLS_KX_ECDHE_ECDSA",
            "GNUTLS_KX_ANON_ECDH", "GNUTLS_KX_ECDHE_PSK"}

gnutls_kx_is_dhe(kx) ==
    kx \in {"GNUTLS_KX_DHE_RSA", "GNUTLS_KX_DHE_DSS",
            "GNUTLS_KX_ANON_DH", "GNUTLS_KX_DHE_PSK"}

gnutls_kx_needs_dh_params(kx) ==
    kx \in {"GNUTLS_KX_DHE_RSA", "GNUTLS_KX_DHE_DSS",
            "GNUTLS_KX_ANON_DH", "GNUTLS_KX_DHE_PSK"}

\* Credential type a key exchange authenticates with, per side.
gnutls_map_kx_get_cred(kx, server) ==
    CASE kx \in {"GNUTLS_KX_ANON_DH", "GNUTLS_KX_ANON_ECDH"} -> GNUTLS_CRD_ANON
      [] kx \in {"GNUTLS_KX_PSK", "GNUTLS_KX_DHE_PSK", "GNUTLS_KX_ECDHE_PSK"} -> GNUTLS_CRD_PSK
      [] kx = "GNUTLS_KX_RSA_PSK" -> IF server THEN GNUTLS_CRD_CERTIFICATE ELSE GNUTLS_CRD_PSK
      [] kx = "GNUTLS_KX_SRP" -> GNUTLS_CRD_SRP
      [] kx \in {"GNUTLS_KX_SRP_RSA", "GNUTLS_KX_SRP_DSS"} ->
             IF server THEN GNUTLS_CRD_CERTIFICATE ELSE GNUTLS_CRD_SRP
      [] OTHER -> GNUTLS_CRD_CERTIFICATE

\* _gnutls_cipher_type(cipher_to_entry(algo)).
gnutls_cipher_type(algo) ==
    CASE algo \in {"GNUTLS_CIPHER_3DES_CBC", "GNUTLS_CIPHER_AES_128_CBC",
                   "GNUTLS_CIPHER_AES_256_CBC", "GNUTLS_CIPHER_CAMELLIA_128_CBC",
                   "GNUTLS_CIPHER_CAMELLIA_256_CBC"} -> "CIPHER_BLOCK"
      [] algo \in {"GNUTLS_CIPHER_NULL", "GNUTLS_CIPHER_ARCFOUR_128",
                   "GNUTLS_CIPHER_GOST28147_TC26Z_CNT"} -> "CIPHER_STREAM"
      [] OTHER -> "CIPHER_AEAD"

\* _gnutls_get_cred: the credential of a type set on the session.  A
\* credential is the set of its non-zero fields, "cred" standing for the
\* object itself; NULL_CRED is the null pointer.
gnutls_get_cred(s, type) == s.cred[type]

\* version->tls13_sem
tls13_sem(v) == v = GNUTLS_TLS1_3

\* _gnutls_select_server_cert: >= 0 when a certificate fits the suite.
gnutls_select_server_cert(s, e) == IF e \in s.cert_ok THEN 0 ELSE -1

(* ------------------------------------------------------------------ *)
(* Negotiation (server side).                                          *)
(* ------------------------------------------------------------------ *)
\* Variant: the upper end of the range is not tested.
VERSION_CHECK_no_upper(s, entry) ==
    IF s.is_dtls
    THEN ~(\/ entry.min_dtls_version = GNUTLS_VERSION_UNKNOWN
           \/ s.version < entry.min_dtls_version)
    ELSE ~(\/ min_version(entry) = GNUTLS_VERSION_UNKNOWN
           \/ s.version < min_version(entry))

\* TRUE when the row is kept, FALSE where the macro does `continue`.
VERSION_CHECK(s, entry) ==
    IF s.is_dtls
    THEN ~(\/ entry.min_dtls_version = GNUTLS_VERSION_UNKNOWN
           \/ s.version < entry.min_dtls_version
           \/ s.version > entry.max_dtls_version)
    ELSE ~(\/ min_version(entry) = GNUTLS_VERSION_UNKNOWN
           \/ s.version < min_version(entry)
           \/ s.version > entry.max_version)

\* Variant: the encrypt-then-mac filter keeps every row.
CIPHER_CHECK_keeps_all(s, have_etm, algo) == TRUE

\* TRUE when the row is kept, FALSE where the macro does `continue`.
CIPHER_CHECK(s, have_etm, algo) ==
    ~(/\ s.force_etm /\ ~have_etm
      /\ gnutls_cipher_type(algo) = "CIPHER_BLOCK")

\* TRUE where the macro runs its action.
KX_SRP_CHECKS(s, kx) ==
    /\ kx \in {"GNUTLS_KX_SRP_RSA", "GNUTLS_KX_SRP_DSS"}
    /\ gnutls_get_cred(s, GNUTLS_CRD_SRP) = NULL_CRED

\* Variant: any credential of the type counts as having DH parameters.
check_server_dh_params_any_cred(s, cred_type, kx) ==
    IF ~gnutls_kx_needs_dh_params(kx) THEN TRUE
    ELSE IF HSK_HAVE_FFDHE \in s.hsk_flags THEN FALSE
    ELSE IF cred_type \in {GNUTLS_CRD_CERTIFICATE, GNUTLS_CRD_ANON, GNUTLS_CRD_PSK}
         THEN gnutls_get_cred(s, cred_type) # NULL_CRED
         ELSE TRUE

\* Variant: the FFDHE flag is not consulted.
check_server_dh_params_no_ffdhe(s, cred_type, kx) ==
    IF ~gnutls_kx_needs_dh_params(kx) THEN TRUE
    ELSE IF cred_type \in {GNUTLS_CRD_CERTIFICATE, GNUTLS_CRD_ANON, GNUTLS_CRD_PSK}
         THEN gnutls_get_cred(s, cred_type) # NULL_CRED
              /\ gnutls_get_cred(s, cred_type)
                    \cap {"dh_params", "params_func", "dh_sec_param"} # {}
         ELSE TRUE

\* 1 when the key exchange has the DH parameters it needs, 0 otherwise.
check_server_dh_params(s, cred_type, kx) ==
    IF ~gnutls_kx_needs_dh_params(kx) THEN TRUE
    ELSE IF HSK_HAVE_FFDHE \in s.hsk_flags THEN FALSE
    ELSE IF cred_type \in {GNUTLS_CRD_CERTIFICATE, GNUTLS_CRD_ANON, GNUTLS_CRD_PSK}
         THEN LET cred == gnutls_get_cred(s, cred_type) IN
              /\ cred # NULL_CRED
              /\ cred \cap {"dh_params", "params_func", "dh_sec_param"} # {}
         ELSE TRUE

\* Variant: an elliptic-curve key exchange goes ahead without a candidate
\* group.
kx_is_ok_ec_unchecked(s, kx, cred_type) ==
    IF gnutls_kx_is_ecc(kx)
    THEN [ok |-> ~KX_SRP_CHECKS(s, kx), sgroup |-> s.cand_ec_group]
    ELSE IF gnutls_kx_is_dhe(kx)
    THEN IF s.cand_dh_group = NULL
         THEN IF ~check_server_dh_params(s, cred_type, kx)
              THEN [ok |-> FALSE, sgroup |-> NULL]
              ELSE [ok |-> ~KX_SRP_CHECKS(s, kx), sgroup |-> NULL]
         ELSE [ok |-> ~KX_SRP_CHECKS(s, kx), sgroup |-> s.cand_dh_group]
    ELSE [ok |-> ~KX_SRP_CHECKS(s, kx), sgroup |-> NULL]

\* Result: ok and the value left in *sgroup (the caller passes NULL in).
kx_is_ok(s, kx, cred_type) ==
    IF gnutls_kx_is_ecc(kx)
    THEN IF s.cand_ec_group = NULL
         THEN [ok |-> FALSE, sgroup |-> NULL]
         ELSE [ok |-> ~KX_SRP_CHECKS(s, kx), sgroup |-> s.cand_ec_group]
    ELSE IF gnutls_kx_is_dhe(kx)
    THEN IF s.cand_dh_group = NULL
         THEN IF ~check_server_dh_params(s, cred_type, kx)
              THEN [ok |-> FALSE, sgroup |-> NULL]
              ELSE [ok |-> ~KX_SRP_CHECKS(s, kx), sgroup |-> NULL]
         ELSE [ok |-> ~KX_SRP_CHECKS(s, kx), sgroup |-> s.cand_dh_group]
    ELSE [ok |-> ~KX_SRP_CHECKS(s, kx), sgroup |-> NULL]

\* cred_type as it stands when kx_is_ok is called: the TLS 1.3 default
\* is never overwritten under tls13_sem, and otherwise it is recomputed
\* for every candidate before use.
cred_type_of(s, kx) ==
    IF ~tls13_sem(s.version) THEN gnutls_map_kx_get_cred(kx, TRUE)
    ELSE GNUTLS_CRD_CERTIFICATE

Found(e, sgroup, calls) ==
    [ret |-> 0, ce |-> e, sgroup |-> sgroup, calls |-> calls]

NothingInCommon(calls) ==
    [ret |-> GNUTLS_E_NO_CIPHER_SUITES, ce |-> NULL_ENTRY, sgroup |-> NULL, calls |-> calls]

\* Variant: the result of certificate selection is ignored.
after_kx_cert_ignored(s, e, prf, cred_type, k, r, calls) ==
    IF HSK_PSK_SELECTED \in s.hsk_flags
    THEN [verdict |-> IF s.binder_prf # prf THEN "prf" ELSE "ok",
          sgroup |-> k.sgroup, calls |-> calls]
    ELSE IF cred_type = GNUTLS_CRD_CERTIFICATE
    THEN [verdict |-> "ok", sgroup |-> k.sgroup,
          calls |-> Append(calls, <<e, r >= 0>>)]
    ELSE [verdict |-> "ok", sgroup |-> k.sgroup, calls |-> calls]

\* Variant: with a PSK selected the PRFs are not compared.
after_kx_prf_ignored(s, e, prf, cred_type, k, r, calls) ==
    IF HSK_PSK_SELECTED \in s.hsk_flags
    THEN [verdict |-> "ok", sgroup |-> k.sgroup, calls |-> calls]
    ELSE IF cred_type = GNUTLS_CRD_CERTIFICATE
    THEN [verdict |-> IF r < 0 THEN "cert" ELSE "ok", sgroup |-> k.sgroup,
          calls |-> Append(calls, <<e, r >= 0>>)]
    ELSE [verdict |-> "ok", sgroup |-> k.sgroup, calls |-> calls]

\* Variant: certificate selection also runs when a PSK was selected.
after_kx_cert_with_psk(s, e, prf, cred_type, k, r, calls) ==
    IF HSK_PSK_SELECTED \in s.hsk_flags /\ s.binder_prf # prf
    THEN [verdict |-> "prf", sgroup |-> k.sgroup, calls |-> calls]
    ELSE IF cred_type = GNUTLS_CRD_CERTIFICATE
    THEN [verdict |-> IF r < 0 THEN "cert" ELSE "ok", sgroup |-> k.sgroup,
          calls |-> Append(calls, <<e, r >= 0>>)]
    ELSE [verdict |-> "ok", sgroup |-> k.sgroup, calls |-> calls]

\* The part of the match body after kx_is_ok succeeded with result k: the
\* PRF comparison when a PSK was selected, else certificate selection for a
\* certificate credential.  r is what _gnutls_select_server_cert answers
\* for the suite, consulted (and logged) only on that branch.
after_kx(s, e, prf, cred_type, k, r, calls) ==
    IF HSK_PSK_SELECTED \in s.hsk_flags
    THEN [verdict |-> IF s.binder_prf # prf THEN "prf" ELSE "ok",
          sgroup |-> k.sgroup, calls |-> calls]
    ELSE IF cred_type = GNUTLS_CRD_CERTIFICATE
    THEN [verdict |-> IF r < 0 THEN "cert" ELSE "ok", sgroup |-> k.sgroup,
          calls |-> Append(calls, <<e, r >= 0>>)]
    ELSE [verdict |-> "ok", sgroup |-> k.sgroup, calls |-> calls]

\* Variant: a failed kx_is_ok does not stop the candidate.
with_kx_ignored(s, e, prf, cred_type, k, calls) ==
    after_kx(s, e, prf, cred_type, k, gnutls_select_server_cert(s, e), calls)

\* The match body from kx_is_ok on, given its result k.
with_kx(s, e, prf, cred_type, k, calls) ==
    IF ~k.ok THEN [verdict |-> "kx", sgroup |-> k.sgroup, calls |-> calls]
    ELSE after_kx(s, e, prf, cred_type, k, gnutls_select_server_cert(s, e), calls)

\* The body of the `if (cs.entry[j] == peer_clist->entry[i])` match, up to
\* the point where it leaves the inner iteration: which check stopped the
\* candidate ("kx", "prf", "cert") or "ok", the group kx_is_ok left in
\* sgroup, and the certificate-selection call made, if any.  e is the
\* matched suite, entry its row.
candidate_check(s, e, entry, calls) ==
    with_kx(s, e, entry.prf, cred_type_of(s, entry.kx_algorithm),
            kx_is_ok(s, entry.kx_algorithm, cred_type_of(s, entry.kx_algorithm)),
            calls)

\* Loop positions: (i, j), the inner index being 0 at the top of an outer
\* iteration and >= 1 inside the inner loop.  A step either returns or
\* moves on.
Goto(i, j, calls) == [kind |-> "goto", i |-> i, j |-> j, calls |-> calls]
Return(res) == [kind |-> "return", res |-> res]

\* Variant: a failed certificate selection ends the search.
PeerOrderMatch_cert_ends(e, i, j, c) ==
    CASE c.verdict \in {"kx", "prf"} -> Goto(i, j + 1, c.calls)
      [] c.verdict = "cert" -> Return(NothingInCommon(c.calls))
      [] OTHER -> Return(Found(e, c.sgroup, c.calls))

\* server_precedence == 0, inner loop: a failed kx_is_ok or PRF comparison
\* is `continue`, a failed certificate selection is `break`.
PeerOrderMatch(e, i, j, c) ==
    CASE c.verdict \in {"kx", "prf"} -> Goto(i, j + 1, c.calls)
      [] c.verdict = "cert" -> Goto(i + 1, 0, c.calls)
      [] OTHER -> Return(Found(e, c.sgroup, c.calls))

\* server_precedence == 0: for (i over peer_clist) for (j over priorities->cs).
PeerOrderStep(s, peer, have_etm, i, j, calls) ==
    IF j = 0
    THEN IF ~VERSION_CHECK(s, cs_algorithms[peer[i]]) THEN Goto(i + 1, 0, calls)
         ELSE IF ~CIPHER_CHECK(s, have_etm, cs_algorithms[peer[i]].block_algorithm)
         THEN Goto(i + 1, 0, calls)
         ELSE Goto(i, 1, calls)
    ELSE IF j > Len(s.cs) THEN Goto(i + 1, 0, calls)
    ELSE IF s.cs[j] # peer[i] THEN Goto(i, j + 1, calls)
    ELSE PeerOrderMatch(peer[i], i, j,
                        candidate_check(s, peer[i], cs_algorithms[peer[i]], calls))

RECURSIVE PeerOrderLoop(_, _, _, _, _, _)
PeerOrderNext(s, peer, have_etm, d) ==
    IF d.kind = "return" THEN d.res
    ELSE PeerOrderLoop(s, peer, have_etm, d.i, d.j, d.calls)

PeerOrderLoop(s, peer, have_etm, i, j, calls) ==
    IF i > Len(peer) THEN NothingInCommon(calls)
    ELSE PeerOrderNext(s, peer, have_etm, PeerOrderStep(s, peer, have_etm, i, j, calls))

\* Variant: a failed certificate selection moves on along the inner list.
ServerOrderMatch_cert_continue(e, i, j, c) ==
    CASE c.verdict \in {"kx", "prf"} -> Goto(0, j + 1, c.calls)
      [] c.verdict = "cert" -> Goto(i + 1, j, c.calls)
      [] OTHER -> Return(Found(e, c.sgroup, c.calls))

\* server_precedence != 0, inner loop: every failed check is `break`.
ServerOrderMatch(e, i, j, c) ==
    CASE c.verdict \in {"kx", "prf", "cert"} -> Goto(0, j + 1, c.calls)
      [] OTHER -> Return(Found(e, c.sgroup, c.calls))

\* server_precedence != 0: for (j over priorities->cs) for (i over peer_clist).
ServerOrderStep(s, peer, have_etm, j, i, calls) ==
    IF i = 0
    THEN IF ~VERSION_CHECK(s, cs_algorithms[s.cs[j]]) THEN Goto(0, j + 1, calls)
         ELSE IF ~CIPHER_CHECK(s, have_etm, cs_algorithms[s.cs[j]].block_algorithm)
         THEN Goto(0, j + 1, calls)
         ELSE Goto(1, j, calls)
    ELSE IF i > Len(peer) THEN Goto(0, j + 1, calls)
    ELSE IF s.cs[j] # peer[i] THEN Goto(i + 1, j, calls)
    ELSE ServerOrderMatch(peer[i], i, j,
                          candidate_check(s, peer[i], cs_algorithms[s.cs[j]], calls))

RECURSIVE ServerOrderLoop(_, _, _, _, _, _)
ServerOrderNext(s, peer, have_etm, d) ==
    IF d.kind = "return" THEN d.res
    ELSE ServerOrderLoop(s, peer, have_etm, d.j, d.i, d.calls)

ServerOrderLoop(s, peer, have_etm, j, i, calls) ==
    IF j > Len(s.cs) THEN NothingInCommon(calls)
    ELSE ServerOrderNext(s, peer, have_etm, ServerOrderStep(s, peer, have_etm, j, i, calls))

\* have_etm: the raw EtM extension data is present and non-zero.
have_etm_of(s) == s.etm_priv

\* Variant: the default curve is assumed even when the extension was sent.
default_ec_group_ext_ignored(s) ==
    IF ~tls13_sem(s.version) /\ s.cand_ec_group = NULL
    THEN [s EXCEPT !.cand_ec_group = DEFAULT_EC_GROUP]
    ELSE s

\* The default-curve step run before the loops.
default_ec_group(s) ==
    IF /\ ~tls13_sem(s.version) /\ s.cand_ec_group = NULL /\ ~s.sg_ext_present
    THEN [s EXCEPT !.cand_ec_group = DEFAULT_EC_GROUP]
    ELSE s

\* Variant: the two orders exchanged.
search_common_swapped(s, peer) ==
    IF s.server_precedence
    THEN PeerOrderLoop(s, peer, have_etm_of(s), 1, 0, <<>>)
    ELSE ServerOrderLoop(s, peer, have_etm_of(s), 1, 0, <<>>)

\* The two search orders, chosen by priorities->server_precedence.
search_common(s, peer) ==
    IF ~s.server_precedence
    THEN PeerOrderLoop(s, peer, have_etm_of(s), 1, 0, <<>>)
    ELSE ServerOrderLoop(s, peer, have_etm_of(s), 1, 0, <<>>)

\* Variant: whatever is in sgroup is recorded.
record_group_unconditional(s, r) == [s EXCEPT !.group = r.sgroup]

\* The session once the search returned r: the group is recorded on success
\* when kx_is_ok selected one.
record_group(s, r) ==
    IF r.ret = 0 /\ r.sgroup # NULL THEN [s EXCEPT !.group = r.sgroup] ELSE s

finish(s, r) == [res |-> r, session |-> record_group(s, r)]

searched(s, peer) == finish(s, search_common(s, peer))

\* The whole function: result record and the session it leaves behind.
figure_common_ciphersuite(s, peer) ==
    IF s.version = NULL_VERSION
    THEN [res |-> NothingInCommon(<<>>), session |-> s]
    ELSE searched(default_ec_group(s), peer)

(* ------------------------------------------------------------------ *)
(* Inputs of the negotiation.                                          *)
(* ------------------------------------------------------------------ *)
MaxPeer == 2
MaxPrio == 2

SuiteIndex(name) == CHOOSE i \in 1..Len(cs_algorithms) : cs_algorithms[i].name = name

SeqsUpTo(S, n) == UNION {[1..k -> S] : k \in 0..n}

NoDup(q) == \A a, b \in DOMAIN q : a # b => q[a] # q[b]

CredTypes == {GNUTLS_CRD_CERTIFICATE, GNUTLS_CRD_ANON, GNUTLS_CRD_SRP, GNUTLS_CRD_PSK}

CertCredStates ==
    {NULL_CRED, {"cred"}, {"cred", "dh_params"}, {"cred", "params_func"},
     {"cred", "dh_sec_param"}}

\* What the supported-groups extension left behind: nothing when it was
\* absent; otherwise a candidate EC group and/or the FFDHE flag, with a
\* candidate DH group only if FFDHE groups were advertised.
GroupStates ==
    {g \in [ext : BOOLEAN, ffdhe : BOOLEAN,
            ec : {NULL, "GNUTLS_ECC_CURVE_SECP384R1"},
            dh : {NULL, "GNUTLS_GROUP_FFDHE2048"}] :
        /\ ~g.ext => (~g.ffdhe /\ g.ec = NULL /\ g.dh = NULL)
        /\ g.dh # NULL => g.ffdhe}

NoGroups == [ext |-> FALSE, ffdhe |-> FALSE, ec |-> NULL, dh |-> NULL]

\* get_version(session) with the transport it belongs to; NULL_VERSION when
\* no version is set yet.
NegVersions ==
    {<<FALSE, GNUTLS_TLS1_2>>, <<FALSE, GNUTLS_TLS1_3>>, <<TRUE, GNUTLS_DTLS1_2>>,
     <<FALSE, NULL_VERSION>>}

\* Five families of sessions.  Selection: two TLS 1.3 suites with
\* different PRFs and a block-cipher RSA suite, under every PSK and
\* encrypt-then-mac state and every version.  Key exchange: the RSA suite,
\* ECDHE-RSA {0xC0,0x2F} and a DHE-RSA suite, under every group state and
\* certificate-credential state.  Group: the same suites in a session that
\* already has a group set, with and without negotiated candidate groups and
\* static DH parameters.  SRP: a plain SRP suite, an SRP-RSA suite and the
\* RSA suite, with and without an SRP credential and a certificate
\* credential.  Cipher kinds: a stream, a block and an AEAD RSA suite
\* under every encrypt-then-mac state.
NegScenarios ==
    {[suites |-> {SuiteIndex(n) : n \in {"GNUTLS_AES_128_GCM_SHA256",
                                         "GNUTLS_AES_256_GCM_SHA384",
                                         "GNUTLS_RSA_AES_128_CBC_SHA1"}},
      versions |-> NegVersions,
      envs |-> [g : {NoGroups}, cc : {{"cred"}}, srp : {FALSE}, group : {NULL},
                psk : {NULL, "GNUTLS_MAC_SHA256", "GNUTLS_MAC_SHA384"},
                force_etm : BOOLEAN, etm_priv : BOOLEAN]],
     [suites |-> {SuiteIndex(n) : n \in {"GNUTLS_RSA_AES_128_CBC_SHA1",
                                         "GNUTLS_ECDHE_RSA_AES_128_GCM_SHA256",
                                         "GNUTLS_DHE_RSA_AES_128_GCM_SHA256"}},
      versions |-> {<<FALSE, GNUTLS_TLS1_2>>, <<FALSE, GNUTLS_TLS1_3>>},
      envs |-> [g : GroupStates, cc : CertCredStates, srp : {FALSE},
                group : {NULL}, psk : {NULL},
                force_etm : {FALSE}, etm_priv : {FALSE}]],
     [suites |-> {SuiteIndex(n) : n \in {"GNUTLS_RSA_AES_128_CBC_SHA1",
                                         "GNUTLS_ECDHE_RSA_AES_128_GCM_SHA256",
                                         "GNUTLS_DHE_RSA_AES_128_GCM_SHA256"}},
      versions |-> {<<FALSE, GNUTLS_TLS1_2>>},
      envs |-> [g : {NoGroups,
                     [ext |-> TRUE, ffdhe |-> TRUE,
                      ec |-> "GNUTLS_ECC_CURVE_SECP384R1",
                      dh |-> "GNUTLS_GROUP_FFDHE2048"]},
                cc : {{"cred"}, {"cred", "dh_params"}}, srp : {FALSE},
                group : {"GNUTLS_GROUP_X25519"}, psk : {NULL},
                force_etm : {FALSE}, etm_priv : {FALSE}]],
     [suites |-> {SuiteIndex(n) : n \in {"GNUTLS_SRP_SHA_AES_128_CBC_SHA1",
                                         "GNUTLS_SRP_SHA_RSA_AES_128_CBC_SHA1",
                                         "GNUTLS_RSA_AES_128_CBC_SHA1"}},
      versions |-> {<<FALSE, GNUTLS_TLS1_2>>, <<TRUE, GNUTLS_DTLS1_2>>},
      envs |-> [g : {NoGroups}, cc : {NULL_CRED, {"cred"}}, srp : BOOLEAN,
                group : {NULL}, psk : {NULL},
                force_etm : {FALSE}, etm_priv : {FALSE}]],
     [suites |-> {SuiteIndex(n) : n \in {"GNUTLS_RSA_ARCFOUR_128_SHA1",
                                         "GNUTLS_RSA_AES_128_CBC_SHA1",
                                         "GNUTLS_RSA_AES_128_GCM_SHA256"}},
      versions |-> {<<FALSE, GNUTLS_TLS1_2>>},
      envs |-> [g : {NoGroups}, cc : {{"cred"}}, srp : {FALSE},
                group : {NULL}, psk : {NULL},
                force_etm : BOOLEAN, etm_priv : BOOLEAN]]}

NegSuites == UNION {sc.suites : sc \in NegScenarios}

\* The variables of the other two operations at rest.
OfferIdle ==
    cdata = <<>> /\ add_scsv = FALSE /\ cipher_suites = <<>> /\ init_length = 0

IndexIdle ==
    /\ pcache = [cs |-> <<>>, protocol |-> <<>>]
    /\ idx = 0 /\ sidx = 0 /\ crypto_exists = {}

RegistryIdle == query = NULL /\ answer = NULL

MaxRecordIdle == state = NULL /\ ext_data = <<>>

NegSession(ver, cs, sp, env, ok) ==
    [is_dtls |-> ver[1], version |-> ver[2], cs |-> cs,
     server_precedence |-> sp,
     force_etm |-> env.force_etm, etm_priv |-> env.etm_priv,
     hsk_flags |-> (IF env.psk # NULL THEN {HSK_PSK_SELECTED} ELSE {})
                   \cup (IF env.g.ffdhe THEN {HSK_HAVE_FFDHE} ELSE {}),
     binder_prf |-> env.psk,
     cand_ec_group |-> env.g.ec, cand_dh_group |-> env.g.dh,
     sg_ext_present |-> env.g.ext,
     cred |-> [t \in CredTypes |->
                  CASE t = GNUTLS_CRD_CERTIFICATE -> env.cc
                    [] t = GNUTLS_CRD_SRP -> IF env.srp THEN {"cred"} ELSE NULL_CRED
                    [] OTHER -> NULL_CRED],
     cert_ok |-> ok, group |-> env.group]

\* A server session that has parsed the peer's hello.  The priority list
\* holds each suite once; the peer may repeat an id.  The certificate
\* oracle is fixed for the suites that can be asked about.
Init ==
    /\ enable_ssl3 = TRUE
    /\ pc = "start"
    /\ ret = 0
    /\ ce = NULL_ENTRY
    /\ cert_calls = <<>>
    /\ OfferIdle /\ IndexIdle /\ RegistryIdle /\ MaxRecordIdle
    /\ \E sc \in NegScenarios :
          /\ peer_clist \in SeqsUpTo(sc.suites, MaxPeer)
          /\ \E cs \in {q \in SeqsUpTo(sc.suites, MaxPrio) : NoDup(q)},
                sp \in BOOLEAN, ver \in sc.versions, env \in sc.envs :
             \E ok \in SUBSET (Range(cs) \cap Range(peer_clist)) :
                session = NegSession(ver, cs, sp, env, ok)

gnutls_figure_common_ciphersuite ==
    /\ pc = "start"
    /\ \E f \in {figure_common_ciphersuite(session, peer_clist)} :
       /\ ret' = f.res.ret
       /\ ce' = IF f.res.ret = 0 THEN f.res.ce ELSE ce
       /\ cert_calls' = f.res.calls
       /\ session' = f.session
    /\ pc' = "done"
    /\ UNCHANGED <<peer_clist, enable_ssl3, offer_vars, index_vars, registry_vars,
                   mre_vars>>

Next == gnutls_figure_common_ciphersuite

Spec == Init /\ [][Next]_vars

(* ------------------------------------------------------------------ *)
(* Properties of the negotiation.                                      *)
(* ------------------------------------------------------------------ *)
Kx(e) == cs_algorithms[e].kx_algorithm

\* The suite passes the version check, the EtM check, kx_is_ok and the
\* PSK-PRF-or-certificate check in session s.
PassesAll(s, e) ==
    /\ VERSION_CHECK(s, cs_algorithms[e])
    /\ CIPHER_CHECK(s, s.etm_priv, cs_algorithms[e].block_algorithm)
    /\ kx_is_ok(s, Kx(e), cred_type_of(s, Kx(e))).ok
    /\ IF HSK_PSK_SELECTED \in s.hsk_flags
       THEN s.binder_prf = cs_algorithms[e].prf
       ELSE cred_type_of(s, Kx(e)) = GNUTLS_CRD_CERTIFICATE => e \in s.cert_ok

Common(s, peer) == Range(s.cs) \cap Range(peer)

OuterList(s, peer) == IF s.server_precedence THEN s.cs ELSE peer
InnerList(s, peer) == IF s.server_precedence THEN peer ELSE s.cs

\* Positions of the outer list whose suite is in the inner list and passes.
Matches(s, peer) ==
    {k \in DOMAIN OuterList(s, peer) :
        /\ OuterList(s, peer)[k] \in Range(InnerList(s, peer))
        /\ PassesAll(s, OuterList(s, peer)[k])}

Done == pc = "done" /\ session.version # NULL_VERSION

\* C1: with both A and B passing every check, local order [A, B] and peer
\* order [B, A], server precedence yields A and peer precedence yields B.
C1_PrecedenceDecides ==
    \A A, B \in NegSuites :
        (/\ Done /\ A # B
         /\ session.cs = <<A, B>> /\ peer_clist = <<B, A>>
         /\ PassesAll(session, A) /\ PassesAll(session, B))
        => /\ ret = 0
           /\ ce = IF session.server_precedence THEN A ELSE B

C1_Witness ==
    /\ Done /\ Len(session.cs) = 2 /\ Len(peer_clist) = 2
    /\ session.cs[1] # session.cs[2]
    /\ peer_clist = <<session.cs[2], session.cs[1]>>
    /\ PassesAll(session, session.cs[1]) /\ PassesAll(session, session.cs[2])
    /\ session.server_precedence /\ ret = 0 /\ ce = session.cs[1]

\* C2: a successful negotiation returns the first element of the outer list
\* that is in the inner list and passes all checks, and no certificate
\* selection is attempted after the one that succeeded.
C2_FirstMatchWins ==
    (Done /\ ret = 0)
    => /\ Matches(session, peer_clist) # {}
       /\ \E k \in Matches(session, peer_clist) :
             /\ ce = OuterList(session, peer_clist)[k]
             /\ \A m \in Matches(session, peer_clist) : k <= m
       /\ \A n \in 1..(Len(cert_calls) - 1) : ~cert_calls[n][2]

\* An earlier outer element was in both lists and was rejected; a later one won.
C2_Witness ==
    /\ Done /\ ret = 0
    /\ \E k \in Matches(session, peer_clist) :
          /\ k > 1 /\ ce = OuterList(session, peer_clist)[k]
          /\ OuterList(session, peer_clist)[1] \in Common(session, peer_clist)
          /\ OuterList(session, peer_clist)[1] # ce

\* C3: the chosen suite's version range for the transport brackets the
\* negotiated version.
C3_VersionBrackets ==
    (Done /\ ret = 0)
    => IF session.is_dtls
       THEN /\ cs_algorithms[ce].min_dtls_version # GNUTLS_VERSION_UNKNOWN
            /\ cs_algorithms[ce].min_dtls_version <= session.version
            /\ session.version <= cs_algorithms[ce].max_dtls_version
       ELSE /\ min_version(cs_algorithms[ce]) # GNUTLS_VERSION_UNKNOWN
            /\ min_version(cs_algorithms[ce]) <= session.version
            /\ session.version <= cs_algorithms[ce].max_version

\* A suite outside the negotiated version was offered by both sides ahead of
\* the chosen one and was passed over.
C3_Witness ==
    /\ Done /\ ret = 0
    /\ Len(peer_clist) = 2 /\ Len(session.cs) = 2
    /\ peer_clist[1] = session.cs[1] /\ ce = session.cs[2]
    /\ IF session.is_dtls
       THEN cs_algorithms[session.cs[1]].min_dtls_version = GNUTLS_VERSION_UNKNOWN
       ELSE session.version > cs_algorithms[session.cs[1]].max_version
            \/ session.version < min_version(cs_algorithms[session.cs[1]])

\* C4: when no suite of both lists passes all checks the call fails with
\* GNUTLS_E_NO_CIPHER_SUITES and records neither *ce nor a session group:
\* both stay as they were before the call.
C4_NoCommonSuite ==
    [][(/\ pc = "start" /\ pc' = "done"
        /\ \A e \in Common(session', peer_clist') : ~PassesAll(session', e))
       => /\ ret' = GNUTLS_E_NO_CIPHER_SUITES
          /\ ce' = ce
          /\ session'.group = session.group]_vars

\* Every mutually offered suite got as far as certificate selection and
\* was refused there.
C4_Witness ==
    /\ Done /\ ret = GNUTLS_E_NO_CIPHER_SUITES
    /\ Common(session, peer_clist) # {}
    /\ \A e \in Common(session, peer_clist) :
          \E n \in DOMAIN cert_calls : cert_calls[n] = <<e, FALSE>>

IsDhe(e) ==
    Kx(e) \in {"GNUTLS_KX_DHE_RSA", "GNUTLS_KX_DHE_DSS", "GNUTLS_KX_ANON_DH",
               "GNUTLS_KX_DHE_PSK"}

NoDhField(s, fields) == \A t \in CredTypes : s.cred[t] \cap fields = {}

\* C6 as stated: no DHE-family suite is chosen when the session has no DH
\* parameters, no DH parameter callback and no negotiated DH group.
C6_Original ==
    (/\ Done /\ NoDhField(session, {"dh_params", "params_func"})
     /\ session.cand_dh_group = NULL)
    => ~(ret = 0 /\ IsDhe(ce))

\* C6 amended: no DHE-family suite is chosen when the session has no DH
\* parameters, no DH parameter callback, no DH security-parameter setting
\* and no negotiated DH group.
C6_NoDhSourceNoDhe ==
    (/\ Done
     /\ NoDhField(session, {"dh_params", "params_func", "dh_sec_param"})
     /\ session.cand_dh_group = NULL)
    => ~(ret = 0 /\ IsDhe(ce))

\* A DHE suite valid for the version headed both lists, nothing could
\* supply DH parameters, and it was not chosen.
C6_Witness ==
    /\ Done
    /\ NoDhField(session, {"dh_params", "params_func", "dh_sec_param"})
    /\ session.cand_dh_group = NULL
    /\ Len(peer_clist) >= 1 /\ Len(session.cs) >= 1
    /\ peer_clist[1] = session.cs[1] /\ IsDhe(peer_clist[1])
    /\ VERSION_CHECK(session, cs_algorithms[peer_clist[1]])
    /\ peer_clist[1] \in session.cert_ok
    /\ session.cred[GNUTLS_CRD_CERTIFICATE] # NULL_CRED
    /\ ce # peer_clist[1]

\* C7: with a PSK selected, the chosen suite's PRF is the PRF of binders[0].
C7_PskPrfMatches ==
    (Done /\ ret = 0 /\ HSK_PSK_SELECTED \in session.hsk_flags)
    => cs_algorithms[ce].prf = session.binder_prf

\* A suite with another PRF headed both lists and was passed over.
C7_Witness ==
    /\ Done /\ ret = 0 /\ HSK_PSK_SELECTED \in session.hsk_flags
    /\ session.version = GNUTLS_TLS1_3
    /\ Len(peer_clist) = 2 /\ Len(session.cs) = 2
    /\ peer_clist[1] = session.cs[1]
    /\ VERSION_CHECK(session, cs_algorithms[peer_clist[1]])
    /\ cs_algorithms[peer_clist[1]].prf # session.binder_prf
    /\ ce = session.cs[2]

\* Number of positions of sequence q holding x.
Occurrences(q, x) == Cardinality({k \in DOMAIN q : q[k] = x})

CertCallsFor(e) == Cardinality({n \in DOMAIN cert_calls : cert_calls[n][1] = e})

\* C16: a failed certificate selection abandons the rest of the inner list
\* for that outer position: every outer position makes at most one
\* certificate-selection call, the calls follow the order of the outer list,
\* and a failed call does not end the search: when a suite of both lists
\* passes every check, the call still succeeds, with another suite than the
\* one refused.
C16_CertFailureSkipsOuter ==
    Done
    => /\ \A e \in NegSuites :
             CertCallsFor(e) <= Occurrences(OuterList(session, peer_clist), e)
       /\ \A n, m \in DOMAIN cert_calls :
             n < m => \E a, b \in DOMAIN OuterList(session, peer_clist) :
                         /\ a < b
                         /\ OuterList(session, peer_clist)[a] = cert_calls[n][1]
                         /\ OuterList(session, peer_clist)[b] = cert_calls[m][1]
       /\ \A n \in DOMAIN cert_calls :
             (~cert_calls[n][2] /\ Matches(session, peer_clist) # {})
             => (ret = 0 /\ ce # cert_calls[n][1])

\* The first suite of both lists was refused a certificate with a second
\* inner element still to come, and the second outer candidate was chosen.
C16_Witness ==
    /\ Done /\ ret = 0
    /\ Len(peer_clist) = 2 /\ Len(session.cs) = 2
    /\ peer_clist[1] = session.cs[1]
    /\ cert_calls = <<<<peer_clist[1], FALSE>>, <<ce, TRUE>>>>
    /\ ce = OuterList(session, peer_clist)[2]

DheKx == {"GNUTLS_KX_DHE_RSA", "GNUTLS_KX_DHE_DSS", "GNUTLS_KX_ANON_DH",
          "GNUTLS_KX_DHE_PSK"}

\* C17: with HSK_HAVE_FFDHE set and no negotiated DH group, kx_is_ok rejects
\* every DHE-family key exchange under every credential type, whatever the
\* credential holds, and no DHE suite is chosen.
C17_FfdheInvalidatesStaticDh ==
    (HSK_HAVE_FFDHE \in session.hsk_flags /\ session.cand_dh_group = NULL)
    => /\ \A kx \in DheKx, t \in CredTypes : ~kx_is_ok(session, kx, t).ok
       /\ (Done /\ ret = 0) => ~IsDhe(ce)

\* The peer advertised FFDHE groups, none was negotiated, the certificate
\* credential could supply DH parameters, a DHE suite valid for the version
\* headed both lists with a certificate available, and it was not chosen.
C17_Witness ==
    /\ Done
    /\ HSK_HAVE_FFDHE \in session.hsk_flags /\ session.cand_dh_group = NULL
    /\ session.cred[GNUTLS_CRD_CERTIFICATE]
          \cap {"dh_params", "params_func", "dh_sec_param"} # {}
    /\ Len(peer_clist) >= 1 /\ Len(session.cs) >= 1
    /\ peer_clist[1] = session.cs[1] /\ IsDhe(peer_clist[1])
    /\ VERSION_CHECK(session, cs_algorithms[peer_clist[1]])
    /\ peer_clist[1] \in session.cert_ok
    /\ ce # peer_clist[1]

\* C18: with no candidate EC group left after the default-curve step, no
\* ECDHE-family suite is chosen.
C18_NoEcGroupNoEcdhe ==
    (Done /\ session.cand_ec_group = NULL)
    => ~(ret = 0 /\ gnutls_kx_is_ecc(Kx(ce)))

\* The supported-groups extension was present without a usable curve, an
\* ECDHE suite valid for the version headed both lists with a certificate
\* available, and it was not chosen.
C18_Witness ==
    /\ Done /\ session.cand_ec_group = NULL /\ session.sg_ext_present
    /\ Len(peer_clist) >= 1 /\ Len(session.cs) >= 1
    /\ peer_clist[1] = session.cs[1] /\ gnutls_kx_is_ecc(Kx(peer_clist[1]))
    /\ VERSION_CHECK(session, cs_algorithms[peer_clist[1]])
    /\ peer_clist[1] \in session.cert_ok
    /\ session.cred[GNUTLS_CRD_CERTIFICATE] # NULL_CRED
    /\ ce # peer_clist[1]

SrpKx == {"GNUTLS_KX_SRP", "GNUTLS_KX_SRP_RSA", "GNUTLS_KX_SRP_DSS"}

\* C19 as stated: without an SRP credential kx_is_ok fails for the plain SRP,
\* SRP-RSA and SRP-DSS suites of both lists, and no SRP-family suite is
\* chosen.
C19_Original ==
    (Done /\ gnutls_get_cred(session, GNUTLS_CRD_SRP) = NULL_CRED)
    => /\ ret = 0 => Kx(ce) \notin SrpKx
       /\ \A e \in Common(session, peer_clist) :
             Kx(e) \in SrpKx
             => ~kx_is_ok(session, Kx(e), cred_type_of(session, Kx(e))).ok

\* The value the call must leave in the session's group, given the suite it
\* chose: s is the session before the call, t the session after it.
ExpectedGroup(s, t, e) ==
    IF gnutls_kx_is_ecc(Kx(e)) THEN t.cand_ec_group
    ELSE IF gnutls_kx_is_dhe(Kx(e)) /\ s.cand_dh_group # NULL THEN s.cand_dh_group
    ELSE s.group

\* C20: a successful call leaves in the session's group the candidate EC
\* group for an ECDHE-family suite, the negotiated DH group for a DHE-family
\* suite when one was negotiated, and the previous value otherwise; nothing
\* else of the session changes except the defaulted candidate curve.
C20_GroupRecorded ==
    [][(pc = "start" /\ pc' = "done" /\ ret' = 0)
       => /\ session'.group = ExpectedGroup(session, session', ce')
          /\ [session' EXCEPT !.group = session.group,
                              !.cand_ec_group = session.cand_ec_group] = session]_vars

\* A session that already had a group: an ECDHE candidate got its curve from
\* kx_is_ok and was then refused a certificate, an RSA suite was chosen, and
\* the group is the previous one.
C20_Witness ==
    /\ Done /\ ret = 0
    /\ Kx(ce) = "GNUTLS_KX_RSA"
    /\ session.group = "GNUTLS_GROUP_X25519"
    /\ session.cand_ec_group # NULL
    /\ Len(cert_calls) = 2
    /\ gnutls_kx_is_ecc(Kx(cert_calls[1][1])) /\ ~cert_calls[1][2]

IsBlock(e) == gnutls_cipher_type(cs_algorithms[e].block_algorithm) = "CIPHER_BLOCK"

\* Every check on suite e in session s except the encrypt-then-mac filter.
PassesOther(s, e) ==
    /\ VERSION_CHECK(s, cs_algorithms[e])
    /\ kx_is_ok(s, Kx(e), cred_type_of(s, Kx(e))).ok
    /\ IF HSK_PSK_SELECTED \in s.hsk_flags
       THEN s.binder_prf = cs_algorithms[e].prf
       ELSE cred_type_of(s, Kx(e)) = GNUTLS_CRD_CERTIFICATE => e \in s.cert_ok

C22_Original ==
    [][(pc = "start" /\ pc' = "done" /\ session.version # NULL_VERSION)
       => session'.cand_ec_group =
             IF session.cand_ec_group = NULL /\ ~session.sg_ext_present
             THEN DEFAULT_EC_GROUP ELSE session.cand_ec_group]_vars

\* C22 amended: the default curve is assumed only under a negotiated version
\* without TLS 1.3 semantics; under TLS 1.3 semantics, or with the extension
\* present, or with a group already negotiated, the candidate EC group is
\* left as it was.
C22_DefaultCurve ==
    [][(pc = "start" /\ pc' = "done" /\ session.version # NULL_VERSION)
       => session'.cand_ec_group =
             IF /\ session.version # GNUTLS_TLS1_3
                /\ session.cand_ec_group = NULL /\ ~session.sg_ext_present
             THEN DEFAULT_EC_GROUP ELSE session.cand_ec_group]_vars

\* A TLS 1.2 session without the extension ended with the default curve and
\* an ECDHE suite chosen on it.
C22_Witness ==
    /\ Done /\ session.version = GNUTLS_TLS1_2 /\ ~session.sg_ext_present
    /\ session.cand_ec_group = DEFAULT_EC_GROUP
    /\ ret = 0 /\ gnutls_kx_is_ecc(Kx(ce))
    /\ session.group = DEFAULT_EC_GROUP

\* The result of the call on the session with the other precedence.
OtherPrecedence ==
    figure_common_ciphersuite(
        [session EXCEPT !.server_precedence = ~session.server_precedence],
        peer_clist).res

\* C26: the call succeeds exactly when some suite of both lists passes all
\* checks, whichever list leads, so it succeeds under one precedence iff it
\* does under the other; the suite chosen under either precedence passes all
\* checks and is the first such suite of the leading list, which is what a
\* `continue` in place of each `break` would give as well.
C26_PrecedenceEquivalence ==
    Done
    => LET other == OtherPrecedence
       IN /\ ret = 0 <=> (\E e \in Common(session, peer_clist) : PassesAll(session, e))
          /\ ret = 0 <=> other.ret = 0
          /\ ret = 0
             => /\ PassesAll(session, ce) /\ ce \in Common(session, peer_clist)
                /\ PassesAll(session, other.ce)
                /\ other.ce \in Common(session, peer_clist)

\* Under server precedence the first priority, offered by the peer too,
\* failed kx_is_ok and left the inner loop by `break`; the second priority
\* was chosen, as it is under peer precedence.
C26_Witness ==
    /\ Done /\ ret = 0 /\ session.server_precedence
    /\ Len(session.cs) = 2
    /\ Occurrences(peer_clist, session.cs[1]) >= 1
    /\ VERSION_CHECK(session, cs_algorithms[session.cs[1]])
    /\ ~kx_is_ok(session, Kx(session.cs[1]),
                 cred_type_of(session, Kx(session.cs[1]))).ok
    /\ ce = session.cs[2]
    /\ OtherPrecedence.ret = 0 /\ OtherPrecedence.ce = ce

\* C27: every certificate-selection call was made for a suite of both lists
\* that passed the version check, the encrypt-then-mac filter and kx_is_ok,
\* in a session without a selected PSK and with a certificate credential
\* type for that suite (always so under TLS 1.3 semantics); and a success
\* decided by certificate selection ends with a successful call for the
\* returned suite.
C27_CertSelectionOrder ==
    Done
    => /\ \A n \in DOMAIN cert_calls :
             /\ cert_calls[n][1] \in Common(session, peer_clist)
             /\ VERSION_CHECK(session, cs_algorithms[cert_calls[n][1]])
             /\ CIPHER_CHECK(session, session.etm_priv,
                             cs_algorithms[cert_calls[n][1]].block_algorithm)
             /\ kx_is_ok(session, Kx(cert_calls[n][1]),
                         cred_type_of(session, Kx(cert_calls[n][1]))).ok
             /\ HSK_PSK_SELECTED \notin session.hsk_flags
             /\ cred_type_of(session, Kx(cert_calls[n][1])) = GNUTLS_CRD_CERTIFICATE
       /\ (/\ ret = 0 /\ HSK_PSK_SELECTED \notin session.hsk_flags
           /\ cred_type_of(session, Kx(ce)) = GNUTLS_CRD_CERTIFICATE)
          => /\ cert_calls # <<>>
             /\ cert_calls[Len(cert_calls)] = <<ce, TRUE>>
       /\ session.version = GNUTLS_TLS1_3
          => \A e \in NegSuites :
                cred_type_of(session, Kx(e)) = GNUTLS_CRD_CERTIFICATE

\* Under TLS 1.3 a first candidate was refused a certificate and the second
\* was returned on a successful selection.
C27_Witness ==
    /\ Done /\ ret = 0 /\ session.version = GNUTLS_TLS1_3
    /\ HSK_PSK_SELECTED \notin session.hsk_flags
    /\ Len(cert_calls) = 2 /\ ~cert_calls[1][2]
    /\ cert_calls[2] = <<ce, TRUE>>

(* ------------------------------------------------------------------ *)
(* Client offer: _gnutls_get_client_ciphersuites.                      *)
(* ------------------------------------------------------------------ *)
\* Capacity of priorities->cs.entry and of a parsed list, in suites
\* (scaled down).
MAX_CIPHERSUITE_SIZE == 3

RESERVED_CIPHERSUITES == 4

\* sizeof(cipher_suites)
CIPHER_SUITES_BYTES == MAX_CIPHERSUITE_SIZE * 2 + RESERVED_CIPHERSUITES

IsDtlsVersion(v) == v >= GNUTLS_DTLS_VERSION_MIN /\ v <= GNUTLS_DTLS_VERSION_MAX

\* Enabled protocol versions of the session's transport.
EnabledVersions(s) ==
    {s.protocol[k] : k \in {n \in DOMAIN s.protocol : IsDtlsVersion(s.protocol[n]) = s.is_dtls}}

\* _gnutls_version_max: the highest enabled version of the transport, or
\* NULL_VERSION.
gnutls_version_max(s) ==
    IF EnabledVersions(s) = {} THEN NULL_VERSION
    ELSE CHOOSE m \in EnabledVersions(s) : \A v \in EnabledVersions(s) : v <= m

\* _gnutls_write_uint16: big-endian.
write_uint16(n) == <<(n \div 256) % 256, n % 256>>

\* _gnutls_buffer_append_data_prefix(buf, 16, data, size): the length
\* prefix, then the data when there is any.  Either append can fail for
\* lack of memory, as the session's allocator answers.
gnutls_buffer_append_data_prefix(s, buf, data) ==
    CASE s.alloc = "no_prefix" -> [ret |-> GNUTLS_E_MEMORY_ERROR, buf |-> buf]
      [] s.alloc = "no_data" /\ Len(data) > 0 ->
             [ret |-> GNUTLS_E_MEMORY_ERROR, buf |-> buf \o write_uint16(Len(data))]
      [] OTHER -> [ret |-> 0, buf |-> buf \o write_uint16(Len(data)) \o data]

\* _gnutls_ext_sr_send_cs: allocates the extension's private data.
gnutls_ext_sr_send_cs(s) ==
    IF s.alloc = "no_sr" THEN GNUTLS_E_MEMORY_ERROR ELSE 0

\* Variant: no version filter.
CLIENT_VERSION_CHECK_none(is_dtls, maxver, e) == TRUE

\* Variant: the TLS range is used on either transport.
CLIENT_VERSION_CHECK_tls_range(is_dtls, maxver, e) == ~(min_version(e) > maxver)

\* TRUE when the suite is kept, FALSE where the macro does `continue`.
CLIENT_VERSION_CHECK(is_dtls, maxver, e) ==
    IF is_dtls THEN ~(e.min_dtls_version > maxver)
    ELSE ~(min_version(e) > maxver)

\* Credential filter of the loop: TRUE when the suite is kept.
client_kx_check(s, kx) ==
    IF kx # "GNUTLS_KX_UNKNOWN"
    THEN /\ ~(/\ ~s.premaster_set
              /\ gnutls_get_cred(s, gnutls_map_kx_get_cred(kx, FALSE)) = NULL_CRED)
         /\ ~KX_SRP_CHECKS(s, kx)
    ELSE TRUE

RECURSIVE client_suites_loop(_, _, _, _)
\* After the two id bytes are stored: the capacity guard.
client_suites_stored(s, vmax, j, out) ==
    IF Len(out) >= MAX_CIPHERSUITE_SIZE * 2 THEN out
    ELSE client_suites_loop(s, vmax, j + 1, out)

\* One iteration for priorities->cs.entry[j], whose row is entry.
client_suites_step(s, vmax, j, out, entry) ==
    IF ~CLIENT_VERSION_CHECK(s.is_dtls, vmax, entry)
    THEN client_suites_loop(s, vmax, j + 1, out)
    ELSE IF ~client_kx_check(s, entry.kx_algorithm)
    THEN client_suites_loop(s, vmax, j + 1, out)
    ELSE client_suites_stored(s, vmax, j, out \o entry.id)

\* for (j = 0; j < priorities->cs.size; j++): the bytes written.
client_suites_loop(s, vmax, j, out) ==
    IF j > Len(s.cs) THEN out
    ELSE client_suites_step(s, vmax, j, out, cs_algorithms[s.cs[j]])

\* TRUE when the renegotiation SCSV block runs (it is compiled under
\* ENABLE_SSL3 only).
scsv_block(scsv) == enable_ssl3 /\ scsv

safe_renegotiation_scsv(out, scsv) ==
    IF scsv_block(scsv) THEN out \o <<0, 255>> ELSE out

\* Variant: the fallback value is written ahead of everything else.
fallback_scsv_first(s, out) ==
    IF s.fallback
    THEN <<GNUTLS_FALLBACK_SCSV_MAJOR, GNUTLS_FALLBACK_SCSV_MINOR>> \o out
    ELSE out

fallback_scsv(s, out) ==
    IF s.fallback
    THEN out \o <<GNUTLS_FALLBACK_SCSV_MAJOR, GNUTLS_FALLBACK_SCSV_MINOR>>
    ELSE out

\* Variant: the prefix is left out of the count.
offer_length_payload_only(length, init) == length - init - 2

\* return cdata->length - init_length;
offer_length(length, init) == length - init

OfferResult(r, buf, out, s) ==
    [ret |-> r, cdata |-> buf, cipher_suites |-> out, session |-> s]

\* The end of the function, given the result a of the buffer append.
offer_appended(s, buf, out, a) ==
    IF a.ret < 0 THEN OfferResult(a.ret, a.buf, out, s)
    ELSE OfferResult(offer_length(Len(a.buf), Len(buf)), a.buf, out, s)

\* From the fallback SCSV on; out holds what was written so far.
offer_fallback(s, buf, out) ==
    offer_appended(s, buf, out, gnutls_buffer_append_data_prefix(s, buf, out))

\* Variant: a failed _gnutls_ext_sr_send_cs is reported after the append.
offer_scsv_late_error(s, buf, out, scsv) ==
    IF scsv_block(scsv) /\ gnutls_ext_sr_send_cs(s) < 0
    THEN OfferResult(gnutls_ext_sr_send_cs(s),
                     buf \o write_uint16(Len(out)) \o out, out, s)
    ELSE offer_fallback(IF scsv_block(scsv) THEN [s EXCEPT !.sr_saved = TRUE] ELSE s,
                        buf, fallback_scsv(s, out))

\* From the renegotiation SCSV block on; out already holds its two bytes
\* when the block runs.
offer_scsv(s, buf, out, scsv) ==
    IF scsv_block(scsv) /\ gnutls_ext_sr_send_cs(s) < 0
    THEN OfferResult(gnutls_ext_sr_send_cs(s), buf, out, s)
    ELSE offer_fallback(IF scsv_block(scsv) THEN [s EXCEPT !.sr_saved = TRUE] ELSE s,
                        buf, fallback_scsv(s, out))

\* From the loop on, vmax being known.
offer_with_vmax(s, buf, scsv, vmax) ==
    offer_scsv(s, buf,
               safe_renegotiation_scsv(client_suites_loop(s, vmax, 1, <<>>), scsv),
               scsv)

get_client_ciphersuites(s, buf, scsv) ==
    IF gnutls_version_max(s) = NULL_VERSION
    THEN OfferResult(GNUTLS_E_NO_PRIORITIES_WERE_SET, buf, <<>>, s)
    ELSE offer_with_vmax(s, buf, scsv, gnutls_version_max(s))

\* Suites a client may have in its priorities: a TLS 1.3 suite, an RSA
\* suite, a PSK suite from TLS 1.2 on and an SRP-RSA suite.
OfferSuites ==
    {SuiteIndex(n) : n \in {"GNUTLS_AES_128_GCM_SHA256",
                            "GNUTLS_RSA_AES_128_CBC_SHA1",
                            "GNUTLS_PSK_AES_128_GCM_SHA256",
                            "GNUTLS_SRP_SHA_RSA_AES_128_CBC_SHA1"}}

\* Suites of an older configuration: a plain SRP suite, an RC4 suite, which
\* has no DTLS range, and the RSA suite.
OfferSuitesLegacy ==
    {SuiteIndex(n) : n \in {"GNUTLS_SRP_SHA_AES_128_CBC_SHA1",
                            "GNUTLS_RSA_ARCFOUR_128_SHA1",
                            "GNUTLS_RSA_AES_128_CBC_SHA1"}}

\* Transport and enabled protocol versions, some with nothing enabled for
\* the transport.
OfferProtocols ==
    {<<FALSE, <<>> >>, <<FALSE, <<GNUTLS_TLS1_1>> >>, <<FALSE, <<GNUTLS_TLS1_2>> >>,
     <<FALSE, <<GNUTLS_TLS1_3, GNUTLS_TLS1_2>> >>,
     <<FALSE, <<GNUTLS_DTLS1_2, GNUTLS_TLS1_2>> >>,
     <<TRUE, <<GNUTLS_DTLS1_2>> >>, <<TRUE, <<GNUTLS_DTLS1_0>> >>,
     <<TRUE, <<GNUTLS_TLS1_2>> >>}

\* Credential types set on the client session.
OfferCreds ==
    {{}, {GNUTLS_CRD_CERTIFICATE}, {GNUTLS_CRD_CERTIFICATE, GNUTLS_CRD_PSK},
     {GNUTLS_CRD_CERTIFICATE, GNUTLS_CRD_PSK, GNUTLS_CRD_SRP}}

OfferSession(proto, cs, creds, fallback, premaster_set, alloc) ==
    [is_dtls |-> proto[1], protocol |-> proto[2], cs |-> cs,
     fallback |-> fallback, premaster_set |-> premaster_set,
     cred |-> [t \in CredTypes |-> IF t \in creds THEN {"cred"} ELSE NULL_CRED],
     alloc |-> alloc, sr_saved |-> FALSE]

\* A client session about to write its hello; the buffer may already hold
\* data.
InitOffer ==
    /\ peer_clist = <<>>
    /\ ce = NULL_ENTRY
    /\ cert_calls = <<>>
    /\ IndexIdle /\ RegistryIdle /\ MaxRecordIdle
    /\ pc = "start"
    /\ ret = 0
    /\ cipher_suites = <<>>
    /\ init_length = 0
    /\ enable_ssl3 \in BOOLEAN
    /\ add_scsv \in BOOLEAN
    /\ cdata \in {<<>>, <<3, 3>>}
    /\ \E proto \in OfferProtocols, creds \in OfferCreds,
          cs \in {q \in SeqsUpTo(OfferSuites, MAX_CIPHERSUITE_SIZE)
                        \cup SeqsUpTo(OfferSuitesLegacy, MAX_CIPHERSUITE_SIZE) :
                     NoDup(q)},
          fallback \in BOOLEAN, premaster_set \in BOOLEAN,
          alloc \in {"ok", "no_sr", "no_prefix", "no_data"} :
             session = OfferSession(proto, cs, creds, fallback, premaster_set, alloc)

gnutls_get_client_ciphersuites ==
    /\ pc = "start"
    /\ \E f \in {get_client_ciphersuites(session, cdata, add_scsv)} :
       /\ ret' = f.ret
       /\ cdata' = f.cdata
       /\ cipher_suites' = f.cipher_suites
       /\ session' = f.session
    /\ init_length' = Len(cdata)
    /\ pc' = "done"
    /\ UNCHANGED <<peer_clist, enable_ssl3, ce, cert_calls, add_scsv, index_vars,
                   registry_vars, mre_vars>>

NextOffer == gnutls_get_client_ciphersuites

SpecOffer == InitOffer /\ [][NextOffer]_vars

(* ------------------------------------------------------------------ *)
(* Properties of the client offer.                                     *)
(* ------------------------------------------------------------------ *)
\* The k-th two-byte id of a byte sequence.
IdAt(bytes, k) == <<bytes[2 * k - 1], bytes[2 * k]>>

\* Row of each registered id: the first row carrying it.
RowOfId ==
    [id \in {cs_algorithms[i].id : i \in DOMAIN cs_algorithms} |->
        CHOOSE i \in DOMAIN cs_algorithms :
            /\ cs_algorithms[i].id = id
            /\ \A k \in 1..(i - 1) : cs_algorithms[k].id # id]

\* Positions of cipher_suites that hold the id of a registered suite.
RealSuites ==
    {k \in 1..(Len(cipher_suites) \div 2) : IdAt(cipher_suites, k) \in DOMAIN RowOfId}

\* Minimum version of a row for the transport.
MinVersionFor(is_dtls, entry) ==
    IF is_dtls THEN entry.min_dtls_version ELSE min_version(entry)

\* C8: no real suite written has a minimum version for the transport above
\* the highest enabled version; at most MAX_CIPHERSUITE_SIZE real suites are
\* written; and the bytes written fit the local array.
C8_OfferWithinLimits ==
    pc = "done"
    => /\ \A k \in RealSuites :
             MinVersionFor(session.is_dtls, cs_algorithms[RowOfId[IdAt(cipher_suites, k)]])
                <= gnutls_version_max(session)
       /\ Cardinality(RealSuites) <= MAX_CIPHERSUITE_SIZE
       /\ Len(cipher_suites) <= CIPHER_SUITES_BYTES

\* A suite that needs a later version than the highest enabled one was
\* in the priorities and was left out, other suites were written, and both
\* signalling values followed them.
C8_Witness ==
    /\ pc = "done" /\ ret > 0
    /\ RealSuites # {}
    /\ Len(cipher_suites) = 2 * Cardinality(RealSuites) + 4
    /\ \E j \in DOMAIN session.cs :
          MinVersionFor(session.is_dtls, cs_algorithms[session.cs[j]])
             > gnutls_version_max(session)

\* Number of two-byte values the offer is due to carry.
KeptSuites(s) ==
    {j \in DOMAIN s.cs :
        /\ MinVersionFor(s.is_dtls, cs_algorithms[s.cs[j]]) <= gnutls_version_max(s)
        /\ client_kx_check(s, cs_algorithms[s.cs[j]].kx_algorithm)}

SignallingValues(s) ==
    (IF enable_ssl3 /\ add_scsv THEN 1 ELSE 0) + (IF s.fallback THEN 1 ELSE 0)

\* C9: on success the buffer gained a 16-bit big-endian length equal to the
\* number of id bytes that follow it (2 per real suite, 2 per signalling
\* value), then exactly those bytes, and the return value is 2 plus that
\* number.
C9_LengthPrefixExact ==
    (pc = "done" /\ ret >= 0)
    => /\ Len(cdata) >= init_length + 2
       /\ 256 * cdata[init_length + 1] + cdata[init_length + 2]
             = Len(cdata) - init_length - 2
       /\ Len(cdata) - init_length - 2
             = 2 * Cardinality(KeptSuites(session)) + 2 * SignallingValues(session)
       /\ SubSeq(cdata, init_length + 3, Len(cdata)) = cipher_suites
       /\ ret = 2 + Len(cipher_suites)

\* A non-empty buffer gained two real suites and both signalling values.
C9_Witness ==
    /\ pc = "done" /\ ret = 2 + 8
    /\ init_length > 0
    /\ Cardinality(RealSuites) = 2
    /\ SignallingValues(session) = 2

\* The signalling values due after the real suites, the renegotiation value
\* being due when scsv_on.
SignallingTail(s, scsv_on) ==
    (IF scsv_on THEN <<0, 255>> ELSE <<>>)
    \o (IF s.fallback
        THEN <<GNUTLS_FALLBACK_SCSV_MAJOR, GNUTLS_FALLBACK_SCSV_MINOR>> ELSE <<>>)

EndsWith(q, t) ==
    Len(q) >= Len(t) /\ SubSeq(q, Len(q) - Len(t) + 1, Len(q)) = t

\* The bytes written are ids of registered suites followed by exactly the
\* signalling values due, and the renegotiation state was saved iff scsv_on.
OfferShape(scsv_on) ==
    /\ EndsWith(cipher_suites, SignallingTail(session, scsv_on))
    /\ \A k \in 1..((Len(cipher_suites) - Len(SignallingTail(session, scsv_on))) \div 2) :
          IdAt(cipher_suites, k) \in DOMAIN RowOfId
    /\ session.sr_saved = scsv_on

\* C23 as stated: with add_scsv the value {0x00,0xFF} follows the real
\* suites and the renegotiation state is saved, the fallback value follows
\* when the fallback flag is set, and neither is written with its flag off.
C23_Original ==
    (pc = "done" /\ ret >= 0) => OfferShape(add_scsv)

\* C23 amended: as stated, in a build with ENABLE_SSL3; without it add_scsv
\* has no effect: {0x00,0xFF} is not written and nothing is saved.
C23_SignallingSuites ==
    (pc = "done" /\ ret >= 0) => OfferShape(enable_ssl3 /\ add_scsv)

\* No suite of the priorities passed the filters, and both signalling values
\* were written all the same.
C23_Witness ==
    /\ pc = "done" /\ ret >= 0
    /\ session.cs # <<>> /\ KeptSuites(session) = {}
    /\ cipher_suites = <<0, 255, GNUTLS_FALLBACK_SCSV_MAJOR, GNUTLS_FALLBACK_SCSV_MINOR>>
    /\ session.sr_saved

\* The credential filter as the claim words it.
ClaimedCredFilter(s, kx) ==
    \/ kx = "GNUTLS_KX_UNKNOWN"
    \/ /\ s.premaster_set
          \/ gnutls_get_cred(s, gnutls_map_kx_get_cred(kx, FALSE)) # NULL_CRED
       /\ kx \in SrpKx => gnutls_get_cred(s, GNUTLS_CRD_SRP) # NULL_CRED

RECURSIVE ClaimedIds(_, _)
\* Ids of the priorities from position j on that pass the version filter and
\* the credential filter as worded, in order.
ClaimedIds(s, j) ==
    IF j > Len(s.cs) THEN <<>>
    ELSE (IF /\ MinVersionFor(s.is_dtls, cs_algorithms[s.cs[j]])
                   <= gnutls_version_max(s)
             /\ ClaimedCredFilter(s, cs_algorithms[s.cs[j]].kx_algorithm)
          THEN cs_algorithms[s.cs[j]].id ELSE <<>>)
         \o ClaimedIds(s, j + 1)

\* C24 as stated: the real suites written are the ids, in priority order, of
\* exactly the entries that pass the version filter and the credential
\* filter, an SRP-family entry needing an SRP credential.
C24_Original ==
    (pc = "done" /\ ret >= 0)
    => SubSeq(cipher_suites, 1, Len(cipher_suites) - 2 * SignallingValues(session))
          = ClaimedIds(session, 1)

\* The buffer after a failed call whose failure came from the append: as at
\* entry, or with the two-byte length prefix appended.
AfterFailedAppend(before, after, out) ==
    after \in {before, before \o write_uint16(Len(out))}

\* C25 as stated: whenever the call returns an error the buffer is as it was
\* at entry.
C25_Original ==
    [][(pc = "start" /\ pc' = "done" /\ ret' < 0) => cdata' = cdata]_vars

\* C25 amended: the call returns GNUTLS_E_NO_PRIORITIES_WERE_SET with no
\* version enabled, or the error of the safe-renegotiation step, or the error
\* of the buffer append, unchanged.  In the first two cases the buffer is as
\* at entry; when the append failed the buffer is as at entry or has gained
\* the two-byte length prefix, the append of the suite bytes having failed
\* after it.
C25_ErrorsLeaveBuffer ==
    [][(pc = "start" /\ pc' = "done" /\ ret' < 0)
       => IF gnutls_version_max(session) = NULL_VERSION
          THEN ret' = GNUTLS_E_NO_PRIORITIES_WERE_SET /\ cdata' = cdata
          ELSE IF enable_ssl3 /\ add_scsv /\ gnutls_ext_sr_send_cs(session) < 0
          THEN ret' = gnutls_ext_sr_send_cs(session) /\ cdata' = cdata
          ELSE /\ ret' = gnutls_buffer_append_data_prefix(session, cdata,
                                                          cipher_suites').ret
               /\ AfterFailedAppend(cdata, cdata', cipher_suites')]_vars

\* The append failed after the length prefix had been written to a buffer
\* that already held data.
C25_Witness ==
    /\ pc = "done" /\ ret = GNUTLS_E_MEMORY_ERROR
    /\ init_length > 0
    /\ Len(cdata) = init_length + 2
    /\ cipher_suites # <<>>

\* C28: on a DTLS session every real suite written has a DTLS version range.
C28_DtlsOfferHasDtlsRange ==
    (pc = "done" /\ session.is_dtls)
    => \A k \in RealSuites :
          cs_algorithms[RowOfId[IdAt(cipher_suites, k)]].min_dtls_version
             # GNUTLS_VERSION_UNKNOWN

\* A DTLS client with a suite without DTLS range in its priorities, kept by
\* the credential filter, wrote other suites and left that one out.
C28_Witness ==
    /\ pc = "done" /\ session.is_dtls /\ ret > 0
    /\ RealSuites # {}
    /\ \E j \in DOMAIN session.cs :
          /\ cs_algorithms[session.cs[j]].min_dtls_version = GNUTLS_VERSION_UNKNOWN
          /\ client_kx_check(session, cs_algorithms[session.cs[j]].kx_algorithm)
          /\ \A k \in RealSuites :
                IdAt(cipher_suites, k) # cs_algorithms[session.cs[j]].id

(* ------------------------------------------------------------------ *)
(* Priority index mapper: gnutls_priority_get_cipher_suite_index.      *)
(* ------------------------------------------------------------------ *)
\* _gnutls_cipher_exists / _gnutls_mac_exists: the backend provides it.
gnutls_cipher_exists(algo) == algo \in crypto_exists
gnutls_mac_exists(algo) == algo \in crypto_exists

\* "find max_tls and max_dtls": the loop over protocol.priorities from j on.
RECURSIVE find_max(_, _, _, _)
find_max(prio, j, max_tls, max_dtls) ==
    IF j > Len(prio) THEN [max_tls |-> max_tls, max_dtls |-> max_dtls]
    ELSE IF prio[j] <= GNUTLS_TLS_VERSION_MAX /\ prio[j] >= max_tls
    THEN find_max(prio, j + 1, prio[j], max_dtls)
    ELSE IF prio[j] <= GNUTLS_DTLS_VERSION_MAX /\ prio[j] >= max_dtls
    THEN find_max(prio, j + 1, max_tls, prio[j])
    ELSE find_max(prio, j + 1, max_tls, max_dtls)

\* Variant: only the MAC is looked up.
primitives_exist_mac_only(entry) == gnutls_mac_exists(entry.mac_algorithm)

\* The availability test on the matching row.
primitives_exist(entry) ==
    /\ gnutls_cipher_exists(entry.block_algorithm)
    /\ gnutls_mac_exists(entry.mac_algorithm)

\* Variant: the versions are not compared.
index_at_row_versions_unchecked(entry, m) ==
    IF primitives_exist(entry) THEN 0 ELSE GNUTLS_E_UNKNOWN_CIPHER_SUITE

\* Body of the registry loop at the one row i that is entry[idx]; every
\* other row is skipped, so leaving the loop by `break` or by running to
\* its end both reach the final return.
index_at_row(entry, m) ==
    IF primitives_exist(entry)
       /\ (m.max_tls >= min_version(entry) \/ m.max_dtls >= entry.min_dtls_version)
    THEN 0
    ELSE GNUTLS_E_UNKNOWN_CIPHER_SUITE

\* Result and *sidx (0-based row number); old is the caller's *sidx.
priority_get_cipher_suite_index(priority, i, old) ==
    IF i >= Len(priority.cs)
    THEN [ret |-> GNUTLS_E_REQUESTED_DATA_NOT_AVAILABLE, sidx |-> old]
    ELSE [ret |-> index_at_row(cs_algorithms[priority.cs[i + 1]],
                               find_max(priority.protocol, 1, 0, 0)),
          sidx |-> priority.cs[i + 1] - 1]

MaxProto == 2

IndexSuites ==
    {SuiteIndex(n) : n \in {"GNUTLS_AES_128_GCM_SHA256",
                            "GNUTLS_RSA_AES_128_CBC_SHA1",
                            "GNUTLS_RSA_AES_128_GCM_SHA256",
                            "GNUTLS_RSA_ARCFOUR_128_SHA1"}}

IndexVersions == {GNUTLS_TLS1_1, GNUTLS_TLS1_3, GNUTLS_DTLS1_0, GNUTLS_DTLS1_2}

\* Ciphers and MACs of the suites above.
IndexAlgorithms ==
    UNION {{cs_algorithms[e].block_algorithm, cs_algorithms[e].mac_algorithm} :
              e \in IndexSuites}

\* Backends: complete, or with a cipher, a MAC or both left out.
IndexBackends ==
    {IndexAlgorithms \ out :
        out \in {{}, {"GNUTLS_CIPHER_AES_128_GCM"}, {"GNUTLS_MAC_SHA1"},
                 {"GNUTLS_CIPHER_AES_128_GCM", "GNUTLS_MAC_SHA1"}}}

\* A priority cache and an index, in range or past the end.
InitIndex ==
    /\ session = [is_dtls |-> FALSE]
    /\ peer_clist = <<>>
    /\ ce = NULL_ENTRY
    /\ cert_calls = <<>>
    /\ OfferIdle /\ RegistryIdle /\ MaxRecordIdle
    /\ pc = "start"
    /\ ret = 0
    /\ sidx = 0
    /\ enable_ssl3 \in BOOLEAN
    /\ crypto_exists \in IndexBackends
    /\ idx \in 0..(MaxPrio + 1)
    /\ \E cs \in {q \in SeqsUpTo(IndexSuites, MaxPrio) : NoDup(q)},
          protocol \in SeqsUpTo(IndexVersions, MaxProto) :
             pcache = [cs |-> cs, protocol |-> protocol]

gnutls_priority_get_cipher_suite_index ==
    /\ pc = "start"
    /\ \E f \in {priority_get_cipher_suite_index(pcache, idx, sidx)} :
       /\ ret' = f.ret
       /\ sidx' = f.sidx
    /\ pc' = "done"
    /\ UNCHANGED <<session, peer_clist, enable_ssl3, ce, cert_calls, offer_vars,
                   pcache, idx, crypto_exists, registry_vars, mre_vars>>

NextIndex == gnutls_priority_get_cipher_suite_index

SpecIndex == InitIndex /\ [][NextIndex]_vars

(* ------------------------------------------------------------------ *)
(* Properties of the index mapper.                                     *)
(* ------------------------------------------------------------------ *)
\* Highest enabled version of one transport in the protocol priorities, 0
\* when none is enabled.
MaxEnabled(prio, dtls) ==
    IF {v \in Range(prio) : IsDtlsVersion(v) = dtls} = {} THEN 0
    ELSE CHOOSE m \in {v \in Range(prio) : IsDtlsVersion(v) = dtls} :
            \A v \in Range(prio) : IsDtlsVersion(v) = dtls => v <= m

\* The entry idx refers to can be used: both primitives exist and its
\* minimum version is within reach of the enabled TLS or DTLS versions.
Usable(entry) ==
    /\ entry.block_algorithm \in crypto_exists
    /\ entry.mac_algorithm \in crypto_exists
    /\ \/ min_version(entry) <= MaxEnabled(pcache.protocol, FALSE)
       \/ entry.min_dtls_version <= MaxEnabled(pcache.protocol, TRUE)

\* C10: the result is GNUTLS_E_REQUESTED_DATA_NOT_AVAILABLE exactly when idx
\* is past the list; in range it is success only for a usable entry and
\* GNUTLS_E_UNKNOWN_CIPHER_SUITE otherwise.
C10_IndexResult ==
    pc = "done"
    => /\ ret = GNUTLS_E_REQUESTED_DATA_NOT_AVAILABLE <=> idx >= Len(pcache.cs)
       /\ idx < Len(pcache.cs)
          => /\ ret \in {0, GNUTLS_E_UNKNOWN_CIPHER_SUITE}
             /\ ret = 0 => Usable(cs_algorithms[pcache.cs[idx + 1]])
             /\ ~Usable(cs_algorithms[pcache.cs[idx + 1]])
                   => ret = GNUTLS_E_UNKNOWN_CIPHER_SUITE

\* An entry within reach of the enabled versions whose MAC exists and whose
\* cipher does not was refused.
C10_Witness ==
    /\ pc = "done" /\ idx < Len(pcache.cs)
    /\ ret = GNUTLS_E_UNKNOWN_CIPHER_SUITE
    /\ cs_algorithms[pcache.cs[idx + 1]].block_algorithm \notin crypto_exists
    /\ cs_algorithms[pcache.cs[idx + 1]].mac_algorithm \in crypto_exists
    /\ min_version(cs_algorithms[pcache.cs[idx + 1]]) <= MaxEnabled(pcache.protocol, FALSE)

\* C29: an entry in range that has no DTLS version range and whose minimum
\* TLS version is above the highest TLS version enabled is reported as
\* GNUTLS_E_UNKNOWN_CIPHER_SUITE, whatever else is enabled.
C29_UnreachableVersion ==
    (/\ pc = "done" /\ idx < Len(pcache.cs)
     /\ cs_algorithms[pcache.cs[idx + 1]].min_dtls_version = GNUTLS_VERSION_UNKNOWN
     /\ min_version(cs_algorithms[pcache.cs[idx + 1]])
           > MaxEnabled(pcache.protocol, FALSE))
    => ret = GNUTLS_E_UNKNOWN_CIPHER_SUITE

\* A TLS 1.3 suite whose cipher and MAC exist was refused with TLS 1.1 the
\* only version enabled.
C29_Witness ==
    /\ pc = "done" /\ idx < Len(pcache.cs)
    /\ cs_algorithms[pcache.cs[idx + 1]].kx_algorithm = "GNUTLS_KX_UNKNOWN"
    /\ min_version(cs_algorithms[pcache.cs[idx + 1]]) = GNUTLS_TLS1_3
    /\ cs_algorithms[pcache.cs[idx + 1]].block_algorithm \in crypto_exists
    /\ cs_algorithms[pcache.cs[idx + 1]].mac_algorithm \in crypto_exists
    /\ pcache.protocol = <<GNUTLS_TLS1_1>>
    /\ ret = GNUTLS_E_UNKNOWN_CIPHER_SUITE

(* ------------------------------------------------------------------ *)
(* Registry lookups.                                                   *)
(* ------------------------------------------------------------------ *)
GNUTLS_E_INVALID_REQUEST == -50

\* The null name pointer.
NULL_NAME == [name |-> NULL, offset |-> 0]

\* A pointer into a suite's name, past a prefix of the given length.
NamePtr(entry, skip) == [name |-> entry.name, offset |-> skip]

\* Variant: only the second id byte is compared.
id_matches_low_byte(entry, suite) == entry.id[2] = suite[2]

\* (p->id[0] == suite[0]) && (p->id[1] == suite[1])
id_matches(entry, suite) == entry.id[1] = suite[1] /\ entry.id[2] = suite[2]

\* Where a CIPHER_SUITE_LOOP that breaks (or returns) at its first hit
\* stops, given the rows that hit: the first of them in declaration
\* order, or NULL_ENTRY when the loop runs to the terminator.
FirstRow(rows) ==
    IF rows = {} THEN NULL_ENTRY
    ELSE CHOOSE p \in rows : \A q \in rows : p <= q

\* CIPHER_SUITE_ALG_LOOP: the row the loop stops at for the id.
CIPHER_SUITE_ALG_LOOP(suite) ==
    FirstRow({p \in 1..CIPHER_SUITES_COUNT : id_matches(cs_algorithms[p], suite)})

ciphersuite_to_entry(suite) == CIPHER_SUITE_ALG_LOOP(suite)

kx_of_entry(e) ==
    IF e = NULL_ENTRY THEN "GNUTLS_KX_UNKNOWN" ELSE cs_algorithms[e].kx_algorithm

\* _gnutls_cipher_suite_get_kx_algo: GNUTLS_KX_UNKNOWN unless a row has the id.
gnutls_cipher_suite_get_kx_algo(suite) ==
    kx_of_entry(CIPHER_SUITE_ALG_LOOP(suite))

\* Variant: the MAC is not compared.
triple_matches_no_mac(entry, kx, cipher, mac) ==
    kx = entry.kx_algorithm /\ cipher = entry.block_algorithm

triple_matches(entry, kx, cipher, mac) ==
    /\ kx = entry.kx_algorithm
    /\ cipher = entry.block_algorithm
    /\ mac = entry.mac_algorithm

\* CIPHER_SUITE_LOOP with `ret = p; break` at the first row with the three
\* algorithms.
cipher_suite_get(kx, cipher, mac) ==
    FirstRow({p \in 1..CIPHER_SUITES_COUNT :
                 triple_matches(cs_algorithms[p], kx, cipher, mac)})

name_of_entry(e, skip) ==
    IF e = NULL_ENTRY THEN NULL_NAME ELSE NamePtr(cs_algorithms[e], skip)

\* ce->name + sizeof("GNUTLS_") - 1
gnutls_cipher_suite_get_name(kx, cipher, mac) ==
    name_of_entry(cipher_suite_get(kx, cipher, mac), 7)

id_of_entry(e, suite) ==
    IF e = NULL_ENTRY THEN [ret |-> GNUTLS_E_INVALID_REQUEST, suite |-> suite]
    ELSE [ret |-> 0, suite |-> cs_algorithms[e].id]

\* _gnutls_cipher_suite_get_id: result and the caller's suite[2] afterwards.
gnutls_cipher_suite_get_id(kx, cipher, mac, suite) ==
    id_of_entry(cipher_suite_get(kx, cipher, mac), suite)

\* The output arguments of gnutls_cipher_suite_info that are not NULL
\* pointers are written from the row.
info_outputs(entry, want, out) ==
    [o \in DOMAIN out |->
        IF o \notin want THEN out[o]
        ELSE CASE o = "cs_id" -> entry.id
               [] o = "kx" -> entry.kx_algorithm
               [] o = "cipher" -> entry.block_algorithm
               [] o = "mac" -> entry.mac_algorithm
               [] OTHER -> min_version(entry)]

\* Variant: the enumeration ends one row early.
cipher_suite_info_short(i, want, out) ==
    IF i >= CIPHER_SUITES_COUNT - 1 THEN [name |-> NULL_NAME, out |-> out]
    ELSE [name |-> NamePtr(cs_algorithms[i + 1], 3),
          out |-> info_outputs(cs_algorithms[i + 1], want, out)]

\* gnutls_cipher_suite_info(idx, ...): cs_algorithms[idx].name +
\* sizeof("GNU") - 1 and the outputs, or NULL past the table.
cipher_suite_info(i, want, out) ==
    IF i >= CIPHER_SUITES_COUNT THEN [name |-> NULL_NAME, out |-> out]
    ELSE [name |-> NamePtr(cs_algorithms[i + 1], 3),
          out |-> info_outputs(cs_algorithms[i + 1], want, out)]

\* Ids asked for: every first byte the table uses and the first bytes of
\* the two signalling values, with every second byte.
QueryIds == {<<hi, lo>> : hi \in {0, 19, 86, 192, 193, 204, 255}, lo \in 0..255}

KxAlgorithms == {cs_algorithms[i].kx_algorithm : i \in DOMAIN cs_algorithms}
CipherAlgorithms == {cs_algorithms[i].block_algorithm : i \in DOMAIN cs_algorithms}
MacAlgorithms == {cs_algorithms[i].mac_algorithm : i \in DOMAIN cs_algorithms}

InfoOutputs == {"cs_id", "kx", "cipher", "mac", "min_version"}

\* What the caller's output variables hold before the call.
Unwritten ==
    [o \in InfoOutputs |->
        CASE o = "cs_id" -> <<170, 170>>
          [] o = "min_version" -> 0
          [] OTHER -> "unwritten"]

RegistryQueries ==
    [fn : {"ciphersuite_to_entry", "_gnutls_cipher_suite_get_kx_algo"}, suite : QueryIds]
    \cup [fn : {"cipher_suite_get", "gnutls_cipher_suite_get_name"},
          kx : KxAlgorithms, cipher : CipherAlgorithms, mac : MacAlgorithms]
    \cup [fn : {"_gnutls_cipher_suite_get_id"},
          kx : KxAlgorithms, cipher : CipherAlgorithms, mac : MacAlgorithms,
          suite : {<<170, 170>>}]
    \cup [fn : {"gnutls_cipher_suite_info"}, idx : 0..(CIPHER_SUITES_COUNT + 2),
          want : {InfoOutputs, {}, {"cs_id"}, {"kx", "min_version"}},
          out : {Unwritten}]

InitRegistry ==
    /\ session = [is_dtls |-> FALSE]
    /\ peer_clist = <<>>
    /\ ce = NULL_ENTRY
    /\ cert_calls = <<>>
    /\ OfferIdle /\ IndexIdle /\ MaxRecordIdle
    /\ pc = "start"
    /\ ret = 0
    /\ answer = NULL
    /\ enable_ssl3 \in BOOLEAN
    /\ query \in RegistryQueries

RegistryFrame ==
    /\ pc' = "done"
    /\ UNCHANGED <<session, peer_clist, enable_ssl3, ret, ce, cert_calls,
                   offer_vars, index_vars, query, mre_vars>>

call_ciphersuite_to_entry ==
    /\ pc = "start" /\ query.fn = "ciphersuite_to_entry"
    /\ answer' = [ce |-> ciphersuite_to_entry(query.suite)]
    /\ RegistryFrame

call_cipher_suite_get_kx_algo ==
    /\ pc = "start" /\ query.fn = "_gnutls_cipher_suite_get_kx_algo"
    /\ answer' = [kx |-> gnutls_cipher_suite_get_kx_algo(query.suite)]
    /\ RegistryFrame

call_cipher_suite_get ==
    /\ pc = "start" /\ query.fn = "cipher_suite_get"
    /\ answer' = [ce |-> cipher_suite_get(query.kx, query.cipher, query.mac)]
    /\ RegistryFrame

call_cipher_suite_get_name ==
    /\ pc = "start" /\ query.fn = "gnutls_cipher_suite_get_name"
    /\ answer' = [name |-> gnutls_cipher_suite_get_name(query.kx, query.cipher, query.mac)]
    /\ RegistryFrame

call_cipher_suite_get_id ==
    /\ pc = "start" /\ query.fn = "_gnutls_cipher_suite_get_id"
    /\ answer' = gnutls_cipher_suite_get_id(query.kx, query.cipher, query.mac, query.suite)
    /\ RegistryFrame

call_cipher_suite_info ==
    /\ pc = "start" /\ query.fn = "gnutls_cipher_suite_info"
    /\ answer' = cipher_suite_info(query.idx, query.want, query.out)
    /\ RegistryFrame

NextRegistry ==
    \/ call_ciphersuite_to_entry
    \/ call_cipher_suite_get_kx_algo
    \/ call_cipher_suite_get
    \/ call_cipher_suite_get_name
    \/ call_cipher_suite_get_id
    \/ call_cipher_suite_info

SpecRegistry == InitRegistry /\ [][NextRegistry]_vars

(* ------------------------------------------------------------------ *)
(* Properties of the registry.                                         *)
(* ------------------------------------------------------------------ *)
Asked(fn) == pc = "done" /\ query.fn = fn

\* Rows carrying the id.
RowsWithId(suite) == {i \in DOMAIN cs_algorithms : cs_algorithms[i].id = suite}

\* C11: ids are unique: looking up the id of a row gives that row (and its
\* key exchange), and an id no row carries gives NULL.
C11_LookupById ==
    /\ \A i \in DOMAIN cs_algorithms : cs_algorithms[i].id \in QueryIds
    /\ Asked("ciphersuite_to_entry")
       => /\ \A e \in RowsWithId(query.suite) : answer.ce = e
          /\ RowsWithId(query.suite) = {} => answer.ce = NULL_ENTRY
    /\ Asked("_gnutls_cipher_suite_get_kx_algo")
       => \A e \in RowsWithId(query.suite) : answer.kx = cs_algorithms[e].kx_algorithm

\* The id of a row other than the first was looked up and found.
C11_Witness ==
    /\ Asked("ciphersuite_to_entry")
    /\ answer.ce # NULL_ENTRY /\ answer.ce > 1
    /\ cs_algorithms[answer.ce].id = query.suite

\* Rows carrying the three algorithms of the query.
RowsWithTriple ==
    {i \in DOMAIN cs_algorithms :
        /\ cs_algorithms[i].kx_algorithm = query.kx
        /\ cs_algorithms[i].block_algorithm = query.cipher
        /\ cs_algorithms[i].mac_algorithm = query.mac}

IsFirstWithTriple(e) == e \in RowsWithTriple /\ \A i \in RowsWithTriple : e <= i

\* C12: the three lookups by (kx, cipher, mac) resolve to the first row in
\* declaration order with that triple; without one they give NULL, NULL and
\* GNUTLS_E_INVALID_REQUEST, the last leaving the suite bytes as they were.
C12_LookupByTriple ==
    /\ Asked("cipher_suite_get")
       => IF RowsWithTriple = {} THEN answer.ce = NULL_ENTRY
          ELSE IsFirstWithTriple(answer.ce)
    /\ Asked("gnutls_cipher_suite_get_name")
       => IF RowsWithTriple = {} THEN answer.name = NULL_NAME
          ELSE \E e \in RowsWithTriple :
                  /\ IsFirstWithTriple(e)
                  /\ answer.name = [name |-> cs_algorithms[e].name, offset |-> 7]
    /\ Asked("_gnutls_cipher_suite_get_id")
       => IF RowsWithTriple = {}
          THEN answer.ret = GNUTLS_E_INVALID_REQUEST /\ answer.suite = query.suite
          ELSE \E e \in RowsWithTriple :
                  /\ IsFirstWithTriple(e)
                  /\ answer.ret = 0 /\ answer.suite = cs_algorithms[e].id

\* The id of a registered triple was written over the caller's bytes.
C12_Witness ==
    /\ Asked("_gnutls_cipher_suite_get_id")
    /\ answer.ret = 0 /\ answer.suite # query.suite
    /\ RowsWithTriple # {}

\* What gnutls_cipher_suite_info reports of a row for one output.
Reported(entry, o) ==
    CASE o = "cs_id" -> entry.id
      [] o = "kx" -> entry.kx_algorithm
      [] o = "cipher" -> entry.block_algorithm
      [] o = "mac" -> entry.mac_algorithm
      [] o = "min_version" ->
            IF entry.min_version = GNUTLS_SSL3 /\ ~enable_ssl3
            THEN GNUTLS_TLS1 ELSE entry.min_version

\* C13: for idx below CIPHER_SUITES_COUNT the result is the name of the
\* idx-th row and the requested outputs are that row's id, kx, cipher, mac
\* and minimum version; from CIPHER_SUITES_COUNT on the result is NULL and
\* nothing is written.
C13_Enumeration ==
    Asked("gnutls_cipher_suite_info")
    => IF query.idx < CIPHER_SUITES_COUNT
       THEN /\ answer.name # NULL_NAME
            /\ answer.name.name = cs_algorithms[query.idx + 1].name
            /\ \A o \in InfoOutputs :
                  answer.out[o] = IF o \in query.want
                                  THEN Reported(cs_algorithms[query.idx + 1], o)
                                  ELSE query.out[o]
       ELSE answer.name = NULL_NAME /\ answer.out = query.out

\* The last row was reported in full.
C13_Witness ==
    /\ Asked("gnutls_cipher_suite_info")
    /\ query.idx = CIPHER_SUITES_COUNT - 1 /\ query.want = InfoOutputs
    /\ answer.name # NULL_NAME
    /\ answer.out["cs_id"] = cs_algorithms[CIPHER_SUITES_COUNT].id

\* The shape of a row by its key exchange.
RowShape(entry) ==
    /\ entry.kx_algorithm = "GNUTLS_KX_UNKNOWN"
       => /\ entry.min_version = GNUTLS_TLS1_3
          /\ entry.max_version = GNUTLS_TLS1_3
          /\ entry.mac_algorithm = "GNUTLS_MAC_AEAD"
          /\ entry.min_dtls_version = GNUTLS_VERSION_UNKNOWN
          /\ entry.max_dtls_version = GNUTLS_VERSION_UNKNOWN
    /\ entry.kx_algorithm # "GNUTLS_KX_UNKNOWN"
       => entry.max_version = GNUTLS_TLS1_2
    /\ entry.min_version <= entry.max_version

\* C14: every row the enumeration reaches has the shape of its kind: a row
\* without a key exchange is TLS 1.3 only, AEAD and without a DTLS range; a
\* row with a key exchange ends at TLS 1.2; and no row has its minimum
\* version above its maximum.
C14_RowShapes ==
    \A i \in DOMAIN cs_algorithms :
        (Asked("gnutls_cipher_suite_info") /\ query.idx = i - 1)
        => RowShape(cs_algorithms[i])

\* A row without a key exchange was enumerated, and so was one with.
C14_Witness ==
    /\ Asked("gnutls_cipher_suite_info") /\ query.want = InfoOutputs
    /\ answer.name # NULL_NAME
    /\ answer.out["kx"] = "GNUTLS_KX_UNKNOWN"
    /\ answer.out["min_version"] = GNUTLS_TLS1_3
    /\ \E i \in DOMAIN cs_algorithms : cs_algorithms[i].kx_algorithm # "GNUTLS_KX_UNKNOWN"

\* The two values the client appends that are not suites.
SignallingIds ==
    {<<0, 255>>, <<GNUTLS_FALLBACK_SCSV_MAJOR, GNUTLS_FALLBACK_SCSV_MINOR>>}

\* C15: neither signalling value is the id of a row, so looking one up
\* gives NULL and no list of rows, nor the suite chosen from such lists, can
\* hold it.
C15_SignallingIdsUnregistered ==
    /\ \A i \in DOMAIN cs_algorithms : cs_algorithms[i].id \notin SignallingIds
    /\ (Asked("ciphersuite_to_entry") /\ query.suite \in SignallingIds)
       => answer.ce = NULL_ENTRY
    /\ (Asked("_gnutls_cipher_suite_get_kx_algo") /\ query.suite \in SignallingIds)
       => answer.kx = "GNUTLS_KX_UNKNOWN"

\* The renegotiation value was looked up and not found.
C15_Witness ==
    /\ Asked("ciphersuite_to_entry")
    /\ query.suite = <<0, 255>>
    /\ answer.ce = NULL_ENTRY

(* ------------------------------------------------------------------ *)
(* Max-record-size extension: receiving the peer's value.              *)
(* ------------------------------------------------------------------ *)
GNUTLS_E_UNEXPECTED_PACKET_LENGTH == -9
GNUTLS_E_ILLEGAL_PARAMETER == -55
DEFAULT_MAX_RECORD_SIZE == 16384
UINT16_MODULUS == 65536

GNUTLS_SERVER == "GNUTLS_SERVER"
GNUTLS_CLIENT == "GNUTLS_CLIENT"

\* _gnutls_mre_num2record: extension number to record size.
mre_num2record(num) ==
    CASE num = 1 -> 512
      [] num = 2 -> 1024
      [] num = 3 -> 2048
      [] num = 4 -> 4096
      [] OTHER -> GNUTLS_E_ILLEGAL_PARAMETER

\* `size_t new_size = <int>`: the int modulo 2^N, N the width of size_t.
\* The value is compared and then stored in a 16-bit field, so its low 16
\* bits are kept, on which every N >= 16 agrees, together with whether the
\* int was negative, in which case the size_t is at least 2^(N-1).
to_size_t(v) == [low16 |-> v % UINT16_MODULUS, wrapped |-> v < 0]

\* `new_size < 0` on a size_t: an unsigned value is never below zero.
size_lt_0(n) == FALSE

\* `new_size != proposed_record_size`, the right side a 16-bit field.
size_ne(n, u) == n.wrapped \/ n.low16 # u

\* `return new_size`: back to int.
size_to_int(n) == IF n.wrapped THEN n.low16 - UINT16_MODULUS ELSE n.low16

\* `max_record_size = new_size`: the field takes the low 16 bits.
store_uint16(n) == n.low16

\* _gnutls_max_record_recv_params(state, data, data_size), data_size the
\* length of data: the return value and the state it leaves.
max_record_recv_params(st, d) ==
    IF st.entity = GNUTLS_SERVER
    THEN IF Len(d) > 0
         THEN IF Len(d) # 1
              THEN [ret |-> GNUTLS_E_UNEXPECTED_PACKET_LENGTH, state |-> st]
              ELSE LET new_size == to_size_t(mre_num2record(d[1]))
                   IN IF size_lt_0(new_size)
                      THEN [ret |-> size_to_int(new_size), state |-> st]
                      ELSE [ret |-> 0,
                            state |-> [st EXCEPT !.max_record_size =
                                                    store_uint16(new_size)]]
         ELSE [ret |-> 0, state |-> st]
    ELSE IF Len(d) > 0
         THEN IF Len(d) # 1
              THEN [ret |-> GNUTLS_E_UNEXPECTED_PACKET_LENGTH, state |-> st]
              ELSE LET new_size == to_size_t(mre_num2record(d[1]))
                   IN IF size_lt_0(new_size)
                         \/ size_ne(new_size, st.proposed_record_size)
                      THEN [ret |-> GNUTLS_E_ILLEGAL_PARAMETER, state |-> st]
                      ELSE [ret |-> 0,
                            state |-> [st EXCEPT !.max_record_size =
                                                    st.proposed_record_size]]
         ELSE [ret |-> 0, state |-> st]

\* Longest payload handed to the function.
MaxData == 2

\* Payload bytes: the four extension numbers and values around them.
ExtBytes == {0, 1, 2, 3, 4, 5, 255}

\* Record sizes a session can hold before the extension is parsed.
RecordSizes == {512, 1024, 2048, 4096, DEFAULT_MAX_RECORD_SIZE}

InitMaxRecord ==
    /\ session = [is_dtls |-> FALSE]
    /\ peer_clist = <<>>
    /\ enable_ssl3 = TRUE
    /\ ce = NULL_ENTRY
    /\ cert_calls = <<>>
    /\ OfferIdle /\ IndexIdle /\ RegistryIdle
    /\ pc = "start"
    /\ ret = 0
    /\ \E e \in {GNUTLS_SERVER, GNUTLS_CLIENT}, m \in RecordSizes, p \in RecordSizes :
          state = [entity |-> e, max_record_size |-> m, proposed_record_size |-> p]
    /\ ext_data \in SeqsUpTo(ExtBytes, MaxData)

gnutls_max_record_recv_params ==
    /\ pc = "start"
    /\ \E f \in {max_record_recv_params(state, ext_data)} :
       /\ ret' = f.ret
       /\ state' = f.state
    /\ pc' = "done"
    /\ UNCHANGED <<session, peer_clist, enable_ssl3, ce, cert_calls, offer_vars,
                   index_vars, registry_vars, ext_data>>

NextMaxRecord == gnutls_max_record_recv_params

SpecMaxRecord == InitMaxRecord /\ [][NextMaxRecord]_vars

(* ------------------------------------------------------------------ *)
(* Properties of the max-record extension.                             *)
(* ------------------------------------------------------------------ *)
\* C30: on a server a one-byte payload outside 1..4 returns the
\* illegal-parameter error and leaves max_record_size unchanged, so the
\* stored size is always 512, 1024, 2048, 4096 or the previous value; a
\* payload of any length other than 0 or 1 returns
\* GNUTLS_E_UNEXPECTED_PACKET_LENGTH with the state unchanged.
C30_Original ==
    [][(pc = "start" /\ pc' = "done") =>
        /\ (state.entity = GNUTLS_SERVER /\ Len(ext_data) = 1 /\ ext_data[1] \notin 1..4)
              => (ret' = GNUTLS_E_ILLEGAL_PARAMETER /\ state' = state)
        /\ state.entity = GNUTLS_SERVER
              => state'.max_record_size
                    \in {512, 1024, 2048, 4096, state.max_record_size}
        /\ Len(ext_data) \notin {0, 1}
              => (ret' = GNUTLS_E_UNEXPECTED_PACKET_LENGTH /\ state' = state)]_vars

====
